---- MODULE Spec2Model ----
(***************************************************************************)
(* USAS evaluation framework: the USAS tag grammar parser                  *)
(* (data_utils.parse_usas_token_group) and the two Benedict line formats   *)
(* (parsers/benedict.py: EnglishBenedict, FinnishBenedict).                *)
(*                                                                         *)
(* A Python str is modelled as a sequence of one-character strings, so     *)
(* that split, find, strip and the regular expressions are computed on     *)
(* the characters as the code computes them.  A call either returns a      *)
(* value or raises; both outcomes are records with the same fields.        *)
(***************************************************************************)
EXTENDS Integers, Sequences, FiniteSets, TLC

\* ------------------------------------------------------------------------
\* Characters and str primitives
\* ------------------------------------------------------------------------

\* A character outside ASCII is written as the one-character stand-in "U+" and
\* its code point in hexadecimal.

\* the ASCII decimal digits, by value
DigitSeq == <<"0", "1", "2", "3", "4", "5", "6", "7", "8", "9">>

\* the decimal digits of Unicode (category Nd), by value: the characters that
\* the regular expression \d matches in a str pattern and that int() converts
DigitRows ==
    <<DigitSeq,
      <<"U+0660", "U+0661", "U+0662", "U+0663", "U+0664", "U+0665", "U+0666", "U+0667", "U+0668", "U+0669">>,
      <<"U+06F0", "U+06F1", "U+06F2", "U+06F3", "U+06F4", "U+06F5", "U+06F6", "U+06F7", "U+06F8", "U+06F9">>,
      <<"U+07C0", "U+07C1", "U+07C2", "U+07C3", "U+07C4", "U+07C5", "U+07C6", "U+07C7", "U+07C8", "U+07C9">>,
      <<"U+0966", "U+0967", "U+0968", "U+0969", "U+096A", "U+096B", "U+096C", "U+096D", "U+096E", "U+096F">>,
      <<"U+09E6", "U+09E7", "U+09E8", "U+09E9", "U+09EA", "U+09EB", "U+09EC", "U+09ED", "U+09EE", "U+09EF">>,
      <<"U+0A66", "U+0A67", "U+0A68", "U+0A69", "U+0A6A", "U+0A6B", "U+0A6C", "U+0A6D", "U+0A6E", "U+0A6F">>,
      <<"U+0AE6", "U+0AE7", "U+0AE8", "U+0AE9", "U+0AEA", "U+0AEB", "U+0AEC", "U+0AED", "U+0AEE", "U+0AEF">>,
      <<"U+0B66", "U+0B67", "U+0B68", "U+0B69", "U+0B6A", "U+0B6B", "U+0B6C", "U+0B6D", "U+0B6E", "U+0B6F">>,
      <<"U+0BE6", "U+0BE7", "U+0BE8", "U+0BE9", "U+0BEA", "U+0BEB", "U+0BEC", "U+0BED", "U+0BEE", "U+0BEF">>,
      <<"U+0C66", "U+0C67", "U+0C68", "U+0C69", "U+0C6A", "U+0C6B", "U+0C6C", "U+0C6D", "U+0C6E", "U+0C6F">>,
      <<"U+0CE6", "U+0CE7", "U+0CE8", "U+0CE9", "U+0CEA", "U+0CEB", "U+0CEC", "U+0CED", "U+0CEE", "U+0CEF">>,
      <<"U+0D66", "U+0D67", "U+0D68", "U+0D69", "U+0D6A", "U+0D6B", "U+0D6C", "U+0D6D", "U+0D6E", "U+0D6F">>,
      <<"U+0DE6", "U+0DE7", "U+0DE8", "U+0DE9", "U+0DEA", "U+0DEB", "U+0DEC", "U+0DED", "U+0DEE", "U+0DEF">>,
      <<"U+0E50", "U+0E51", "U+0E52", "U+0E53", "U+0E54", "U+0E55", "U+0E56", "U+0E57", "U+0E58", "U+0E59">>,
      <<"U+0ED0", "U+0ED1", "U+0ED2", "U+0ED3", "U+0ED4", "U+0ED5", "U+0ED6", "U+0ED7", "U+0ED8", "U+0ED9">>,
      <<"U+0F20", "U+0F21", "U+0F22", "U+0F23", "U+0F24", "U+0F25", "U+0F26", "U+0F27", "U+0F28", "U+0F29">>,
      <<"U+1040", "U+1041", "U+1042", "U+1043", "U+1044", "U+1045", "U+1046", "U+1047", "U+1048", "U+1049">>,
      <<"U+1090", "U+1091", "U+1092", "U+1093", "U+1094", "U+1095", "U+1096", "U+1097", "U+1098", "U+1099">>,
      <<"U+17E0", "U+17E1", "U+17E2", "U+17E3", "U+17E4", "U+17E5", "U+17E6", "U+17E7", "U+17E8", "U+17E9">>,
      <<"U+1810", "U+1811", "U+1812", "U+1813", "U+1814", "U+1815", "U+1816", "U+1817", "U+1818", "U+1819">>,
      <<"U+1946", "U+1947", "U+1948", "U+1949", "U+194A", "U+194B", "U+194C", "U+194D", "U+194E", "U+194F">>,
      <<"U+19D0", "U+19D1", "U+19D2", "U+19D3", "U+19D4", "U+19D5", "U+19D6", "U+19D7", "U+19D8", "U+19D9">>,
      <<"U+1A80", "U+1A81", "U+1A82", "U+1A83", "U+1A84", "U+1A85", "U+1A86", "U+1A87", "U+1A88", "U+1A89">>,
      <<"U+1A90", "U+1A91", "U+1A92", "U+1A93", "U+1A94", "U+1A95", "U+1A96", "U+1A97", "U+1A98", "U+1A99">>,
      <<"U+1B50", "U+1B51", "U+1B52", "U+1B53", "U+1B54", "U+1B55", "U+1B56", "U+1B57", "U+1B58", "U+1B59">>,
      <<"U+1BB0", "U+1BB1", "U+1BB2", "U+1BB3", "U+1BB4", "U+1BB5", "U+1BB6", "U+1BB7", "U+1BB8", "U+1BB9">>,
      <<"U+1C40", "U+1C41", "U+1C42", "U+1C43", "U+1C44", "U+1C45", "U+1C46", "U+1C47", "U+1C48", "U+1C49">>,
      <<"U+1C50", "U+1C51", "U+1C52", "U+1C53", "U+1C54", "U+1C55", "U+1C56", "U+1C57", "U+1C58", "U+1C59">>,
      <<"U+A620", "U+A621", "U+A622", "U+A623", "U+A624", "U+A625", "U+A626", "U+A627", "U+A628", "U+A629">>,
      <<"U+A8D0", "U+A8D1", "U+A8D2", "U+A8D3", "U+A8D4", "U+A8D5", "U+A8D6", "U+A8D7", "U+A8D8", "U+A8D9">>,
      <<"U+A900", "U+A901", "U+A902", "U+A903", "U+A904", "U+A905", "U+A906", "U+A907", "U+A908", "U+A909">>,
      <<"U+A9D0", "U+A9D1", "U+A9D2", "U+A9D3", "U+A9D4", "U+A9D5", "U+A9D6", "U+A9D7", "U+A9D8", "U+A9D9">>,
      <<"U+A9F0", "U+A9F1", "U+A9F2", "U+A9F3", "U+A9F4", "U+A9F5", "U+A9F6", "U+A9F7", "U+A9F8", "U+A9F9">>,
      <<"U+AA50", "U+AA51", "U+AA52", "U+AA53", "U+AA54", "U+AA55", "U+AA56", "U+AA57", "U+AA58", "U+AA59">>,
      <<"U+ABF0", "U+ABF1", "U+ABF2", "U+ABF3", "U+ABF4", "U+ABF5", "U+ABF6", "U+ABF7", "U+ABF8", "U+ABF9">>,
      <<"U+FF10", "U+FF11", "U+FF12", "U+FF13", "U+FF14", "U+FF15", "U+FF16", "U+FF17", "U+FF18", "U+FF19">>,
      <<"U+104A0", "U+104A1", "U+104A2", "U+104A3", "U+104A4", "U+104A5", "U+104A6", "U+104A7", "U+104A8", "U+104A9">>,
      <<"U+10D30", "U+10D31", "U+10D32", "U+10D33", "U+10D34", "U+10D35", "U+10D36", "U+10D37", "U+10D38", "U+10D39">>,
      <<"U+11066", "U+11067", "U+11068", "U+11069", "U+1106A", "U+1106B", "U+1106C", "U+1106D", "U+1106E", "U+1106F">>,
      <<"U+110F0", "U+110F1", "U+110F2", "U+110F3", "U+110F4", "U+110F5", "U+110F6", "U+110F7", "U+110F8", "U+110F9">>,
      <<"U+11136", "U+11137", "U+11138", "U+11139", "U+1113A", "U+1113B", "U+1113C", "U+1113D", "U+1113E", "U+1113F">>,
      <<"U+111D0", "U+111D1", "U+111D2", "U+111D3", "U+111D4", "U+111D5", "U+111D6", "U+111D7", "U+111D8", "U+111D9">>,
      <<"U+112F0", "U+112F1", "U+112F2", "U+112F3", "U+112F4", "U+112F5", "U+112F6", "U+112F7", "U+112F8", "U+112F9">>,
      <<"U+11450", "U+11451", "U+11452", "U+11453", "U+11454", "U+11455", "U+11456", "U+11457", "U+11458", "U+11459">>,
      <<"U+114D0", "U+114D1", "U+114D2", "U+114D3", "U+114D4", "U+114D5", "U+114D6", "U+114D7", "U+114D8", "U+114D9">>,
      <<"U+11650", "U+11651", "U+11652", "U+11653", "U+11654", "U+11655", "U+11656", "U+11657", "U+11658", "U+11659">>,
      <<"U+116C0", "U+116C1", "U+116C2", "U+116C3", "U+116C4", "U+116C5", "U+116C6", "U+116C7", "U+116C8", "U+116C9">>,
      <<"U+11730", "U+11731", "U+11732", "U+11733", "U+11734", "U+11735", "U+11736", "U+11737", "U+11738", "U+11739">>,
      <<"U+118E0", "U+118E1", "U+118E2", "U+118E3", "U+118E4", "U+118E5", "U+118E6", "U+118E7", "U+118E8", "U+118E9">>,
      <<"U+11950", "U+11951", "U+11952", "U+11953", "U+11954", "U+11955", "U+11956", "U+11957", "U+11958", "U+11959">>,
      <<"U+11C50", "U+11C51", "U+11C52", "U+11C53", "U+11C54", "U+11C55", "U+11C56", "U+11C57", "U+11C58", "U+11C59">>,
      <<"U+11D50", "U+11D51", "U+11D52", "U+11D53", "U+11D54", "U+11D55", "U+11D56", "U+11D57", "U+11D58", "U+11D59">>,
      <<"U+11DA0", "U+11DA1", "U+11DA2", "U+11DA3", "U+11DA4", "U+11DA5", "U+11DA6", "U+11DA7", "U+11DA8", "U+11DA9">>,
      <<"U+16A60", "U+16A61", "U+16A62", "U+16A63", "U+16A64", "U+16A65", "U+16A66", "U+16A67", "U+16A68", "U+16A69">>,
      <<"U+16AC0", "U+16AC1", "U+16AC2", "U+16AC3", "U+16AC4", "U+16AC5", "U+16AC6", "U+16AC7", "U+16AC8", "U+16AC9">>,
      <<"U+16B50", "U+16B51", "U+16B52", "U+16B53", "U+16B54", "U+16B55", "U+16B56", "U+16B57", "U+16B58", "U+16B59">>,
      <<"U+1D7CE", "U+1D7CF", "U+1D7D0", "U+1D7D1", "U+1D7D2", "U+1D7D3", "U+1D7D4", "U+1D7D5", "U+1D7D6", "U+1D7D7">>,
      <<"U+1D7D8", "U+1D7D9", "U+1D7DA", "U+1D7DB", "U+1D7DC", "U+1D7DD", "U+1D7DE", "U+1D7DF", "U+1D7E0", "U+1D7E1">>,
      <<"U+1D7E2", "U+1D7E3", "U+1D7E4", "U+1D7E5", "U+1D7E6", "U+1D7E7", "U+1D7E8", "U+1D7E9", "U+1D7EA", "U+1D7EB">>,
      <<"U+1D7EC", "U+1D7ED", "U+1D7EE", "U+1D7EF", "U+1D7F0", "U+1D7F1", "U+1D7F2", "U+1D7F3", "U+1D7F4", "U+1D7F5">>,
      <<"U+1D7F6", "U+1D7F7", "U+1D7F8", "U+1D7F9", "U+1D7FA", "U+1D7FB", "U+1D7FC", "U+1D7FD", "U+1D7FE", "U+1D7FF">>,
      <<"U+1E140", "U+1E141", "U+1E142", "U+1E143", "U+1E144", "U+1E145", "U+1E146", "U+1E147", "U+1E148", "U+1E149">>,
      <<"U+1E2F0", "U+1E2F1", "U+1E2F2", "U+1E2F3", "U+1E2F4", "U+1E2F5", "U+1E2F6", "U+1E2F7", "U+1E2F8", "U+1E2F9">>,
      <<"U+1E950", "U+1E951", "U+1E952", "U+1E953", "U+1E954", "U+1E955", "U+1E956", "U+1E957", "U+1E958", "U+1E959">>,
      <<"U+1FBF0", "U+1FBF1", "U+1FBF2", "U+1FBF3", "U+1FBF4", "U+1FBF5", "U+1FBF6", "U+1FBF7", "U+1FBF8", "U+1FBF9">>>>

Digits == {DigitRows[r][k] : r \in 1..Len(DigitRows), k \in 1..10}

Upper == {"A", "B", "C", "D", "E", "F", "G", "H", "I", "J", "K", "L", "M", "N", "O", "P", "Q", "R", "S", "T", "U", "V", "W", "X", "Y", "Z"}

\* the characters for which str.isspace() holds: those that str.split() and
\* str.strip() take for whitespace and that \S does not match; the five
\* characters after "\f" are U+000B and U+001C to U+001F themselves
Whitespace ==
    {" ", "\t", "\n", "\r", "\f", "", "", "", "", "",
     "U+0085", "U+00A0", "U+1680", "U+2000", "U+2001", "U+2002", "U+2003", "U+2004", "U+2005",
     "U+2006", "U+2007", "U+2008", "U+2009", "U+200A", "U+2028", "U+2029", "U+202F", "U+205F", "U+3000"}

\* str.strip(): drop leading and trailing whitespace
RECURSIVE LStrip(_)
LStrip(s) == IF s # <<>> /\ Head(s) \in Whitespace THEN LStrip(Tail(s)) ELSE s

RECURSIVE RStrip(_)
RStrip(s) == IF s # <<>> /\ s[Len(s)] \in Whitespace THEN RStrip(SubSeq(s, 1, Len(s) - 1)) ELSE s

Strip(s) == RStrip(LStrip(s))

\* str.split() / re.findall(r"\S+", s): the maximal runs of non-whitespace
RECURSIVE SplitWS(_, _, _)
SplitWS(s, cur, acc) ==
    IF s = <<>> THEN (IF cur = <<>> THEN acc ELSE Append(acc, cur))
    ELSE IF Head(s) \in Whitespace
         THEN SplitWS(Tail(s), <<>>, IF cur = <<>> THEN acc ELSE Append(acc, cur))
         ELSE SplitWS(Tail(s), Append(cur, Head(s)), acc)

Split(s) == SplitWS(s, <<>>, <<>>)

\* str.split(sep) for a one-character sep: keeps empty pieces
RECURSIVE SplitSep(_, _, _, _)
SplitSep(s, sep, cur, acc) ==
    IF s = <<>> THEN Append(acc, cur)
    ELSE IF Head(s) = sep
         THEN SplitSep(Tail(s), sep, <<>>, Append(acc, cur))
         ELSE SplitSep(Tail(s), sep, Append(cur, Head(s)), acc)

SplitOn(s, sep) == SplitSep(s, sep, <<>>, <<>>)

\* sep.join(parts)
RECURSIVE Join(_, _)
Join(parts, sep) ==
    IF parts = <<>> THEN <<>>
    ELSE IF Len(parts) = 1 THEN parts[1]
    ELSE parts[1] \o sep \o Join(Tail(parts), sep)

\* c in s
Contains(s, c) == \E k \in 1..Len(s) : s[k] = c

\* sub occurs in s at 1-based position p
OccursAt(s, sub, p) == p + Len(sub) - 1 <= Len(s) /\ SubSeq(s, p, p + Len(sub) - 1) = sub

\* s.find(sub): 0-based index of the first occurrence, -1 when absent
Find(s, sub) ==
    IF \E p \in 1..Len(s) : OccursAt(s, sub, p)
    THEN (CHOOSE p \in 1..Len(s) : OccursAt(s, sub, p) /\ \A q \in 1..(p - 1) : ~OccursAt(s, sub, q)) - 1
    ELSE -1

\* s.endswith(c)
EndsWith(s, c) == s # <<>> /\ s[Len(s)] = c

\* length of the run of digits of s that starts at position p (regex \d+ is greedy)
RECURSIVE DigitRun(_, _)
DigitRun(s, p) == IF p >= 1 /\ p <= Len(s) /\ s[p] \in Digits THEN 1 + DigitRun(s, p + 1) ELSE 0

\* the value int() gives the decimal digit c
DigitVal(c) ==
    IF \E k \in 1..10 : DigitSeq[k] = c
    THEN (CHOOSE k \in 1..10 : DigitSeq[k] = c) - 1
    ELSE (CHOOSE k \in 1..10 : \E r \in 1..Len(DigitRows) : DigitRows[r][k] = c) - 1

\* int(s) for a non-empty run of decimal digits
RECURSIVE ToInt(_)
ToInt(s) == IF s = <<>> THEN 0 ELSE 10 * ToInt(SubSeq(s, 1, Len(s) - 1)) + DigitVal(s[Len(s)])

\* s with every occurrence of the character c removed
RECURSIVE RemoveAll(_, _)
RemoveAll(s, c) ==
    IF s = <<>> THEN <<>>
    ELSE IF Head(s) = c THEN RemoveAll(Tail(s), c) ELSE <<Head(s)>> \o RemoveAll(Tail(s), c)

\* length of the run of the character c that starts at position p
RECURSIVE CharRun(_, _, _)
CharRun(s, c, p) == IF p <= Len(s) /\ s[p] = c THEN 1 + CharRun(s, c, p + 1) ELSE 0

\* re.search(c+): length of the first run of c anywhere in s, 0 when c is absent
FirstRunLen(s, c) ==
    IF Contains(s, c)
    THEN CharRun(s, c, CHOOSE p \in 1..Len(s) : s[p] = c /\ \A q \in 1..(p - 1) : s[q] # c)
    ELSE 0

\* ------------------------------------------------------------------------
\* data_utils.py: the tag grammar
\* ------------------------------------------------------------------------

\* at most one group of "." and digits
DotGroups_one(s, p) ==
    IF p <= Len(s) /\ s[p] = "." /\ DigitRun(s, p + 1) > 0
    THEN p + 1 + DigitRun(s, p + 1)
    ELSE p

\* ((\.\d+)+)? from position p: the position after the last group matched
RECURSIVE DotGroups(_, _)
DotGroups(s, p) ==
    IF p <= Len(s) /\ s[p] = "." /\ DigitRun(s, p + 1) > 0
    THEN DotGroups(s, p + 1 + DigitRun(s, p + 1))
    ELSE p

\* TAG_RE.match(s): length of the match of ^[A-Z](\d+)((\.\d+)+)?, 0 when no match
TAG_RE(s) ==
    IF Len(s) >= 2 /\ s[1] \in Upper /\ DigitRun(s, 2) > 0
    THEN DotGroups(s, 2 + DigitRun(s, 2)) - 1
    ELSE 0

PUNCT == <<"P", "U", "N", "C", "T">>

\* PUNCT_RE.match(s): length of the match of ^PUNCT, 0 when no match
PUNCT_RE(s) == IF OccursAt(s, PUNCT, 1) THEN Len(PUNCT) ELSE 0

\* POSITIVE_MARKERS_RE.search(s): length of the first run of "+"
POSITIVE_MARKERS_RE(s) == FirstRunLen(s, "+")

\* NEGATIVE_MARKERS_RE.search(s): length of the first run of "-"
NEGATIVE_MARKERS_RE(s) == FirstRunLen(s, "-")

NoTag == [tag |-> <<>>, number_positive_markers |-> 0, number_negative_markers |-> 0,
          male |-> FALSE, female |-> FALSE, rarity_marker_1 |-> FALSE, rarity_marker_2 |-> FALSE,
          antecedents |-> FALSE, neuter |-> FALSE, idiom |-> FALSE]

\* the flags tested one after the other, the first found excluding the rest
parse_usas_tag_flags_exclusive(tag, pos, neg, rest) ==
    [ok |-> TRUE,
     value |-> [tag |-> tag,
                number_positive_markers |-> pos,
                number_negative_markers |-> neg,
                male |-> Contains(rest, "m"),
                female |-> Contains(rest, "f") /\ ~Contains(rest, "m"),
                rarity_marker_1 |-> Contains(rest, "%"),
                rarity_marker_2 |-> Contains(rest, "@"),
                antecedents |-> Contains(rest, "c"),
                neuter |-> Contains(rest, "n"),
                idiom |-> FALSE]]

\* the six flags are tested on what is left of the remainder (data_utils.py:190-228)
parse_usas_tag_flags(tag, pos, neg, rest) ==
    [ok |-> TRUE,
     value |-> [tag |-> tag,
                number_positive_markers |-> pos,
                number_negative_markers |-> neg,
                male |-> Contains(rest, "m"),
                female |-> Contains(rest, "f"),
                rarity_marker_1 |-> Contains(rest, "%"),
                rarity_marker_2 |-> Contains(rest, "@"),
                antecedents |-> Contains(rest, "c"),
                neuter |-> Contains(rest, "n"),
                idiom |-> FALSE]]

\* the first run of "-" is counted and NEGATIVE_MARKERS_RE.sub removes every "-"
parse_usas_tag_negative(tag, pos, rest) ==
    parse_usas_tag_flags(tag, pos, NEGATIVE_MARKERS_RE(rest), RemoveAll(rest, "-"))

\* s without its first run of c
RemoveFirstRun(s, c) ==
    IF Contains(s, c)
    THEN SubSeq(s, 1, Find(s, <<c>>)) \o SubSeq(s, Find(s, <<c>>) + FirstRunLen(s, c) + 1, Len(s))
    ELSE s

\* the first run of "+" is counted and only that run is removed
parse_usas_tag_positive_first_run(tag, rest) ==
    parse_usas_tag_negative(tag, POSITIVE_MARKERS_RE(rest), RemoveFirstRun(rest, "+"))

\* the first run of "+" is counted and POSITIVE_MARKERS_RE.sub removes every "+"
parse_usas_tag_positive(tag, rest) ==
    parse_usas_tag_negative(tag, POSITIVE_MARKERS_RE(rest), RemoveAll(rest, "+"))

\* the length of the code: the TAG_RE match, else the PUNCT_RE match, else 0
CodeLen(usas_tag_text, tag_match) ==
    IF tag_match > 0 THEN tag_match ELSE PUNCT_RE(usas_tag_text)

\* the code taken from the first group of the match: the first letter is lost
parse_usas_tag_code_group1(usas_tag_text, n) ==
    IF n = 0
    THEN [ok |-> FALSE, value |-> NoTag]
    ELSE parse_usas_tag_positive(SubSeq(usas_tag_text, 2, n),
                                 SubSeq(usas_tag_text, n + 1, Len(usas_tag_text)))

\* the code is cut off the front; n = 0 is the ValueError of data_utils.py:174
parse_usas_tag_code(usas_tag_text, n) ==
    IF n = 0
    THEN [ok |-> FALSE, value |-> NoTag]
    ELSE parse_usas_tag_positive(SubSeq(usas_tag_text, 1, n),
                                 SubSeq(usas_tag_text, n + 1, Len(usas_tag_text)))

\* parse_usas_tag: ok = FALSE stands for the ValueError it raises
parse_usas_tag(usas_tag_text) ==
    parse_usas_tag_code(usas_tag_text, CodeLen(usas_tag_text, TAG_RE(usas_tag_text)))

\* a list of parsed items as one outcome: ok when every item is ok
AllOk(parsed) ==
    [ok |-> \A k \in 1..Len(parsed) : parsed[k].ok,
     value |-> [k \in 1..Len(parsed) |-> parsed[k].value]]

\* the tags of the pieces of one atom
ParseTags(pieces) == AllOk([k \in 1..Len(pieces) |-> parse_usas_tag(pieces[k])])

\* only the first piece of the atom is parsed
USASTagGroup_first_piece(usas_tag_group) == ParseTags(<<SplitOn(usas_tag_group, "/")[1]>>)

\* one USASTagGroup: the tags of the "/"-separated pieces of one atom
USASTagGroup(usas_tag_group) == ParseTags(SplitOn(usas_tag_group, "/"))

\* the groups of the atoms
ParseGroups(atoms) == AllOk([k \in 1..Len(atoms) |-> USASTagGroup(atoms[k])])

\* the list of groups, or the ValueError of the piece that failed
GroupsOutcome(groups) ==
    IF groups.ok
    THEN [ok |-> TRUE, error |-> "", value |-> groups.value]
    ELSE [ok |-> FALSE, error |-> "ValueError", value |-> <<>>]

\* parse_usas_token_group: the list of tag groups, or ValueError when a piece fails
parse_usas_token_group(usas_tag_group_text) ==
    GroupsOutcome(ParseGroups(Split(usas_tag_group_text)))

\* ------------------------------------------------------------------------
\* Outcomes of a call: a returned value, or the exception raised
\* ------------------------------------------------------------------------

NotCalled == "NotCalled"

ValueError == "ValueError"

IndexError == "IndexError"

\* token_mwe_mapping holds an MWE id or None; ids are non-negative
None == -1

\* only the code of the first tag
JoinTags_first(tags) == tags[1].tag

\* "/".join([usas_tag.tag for usas_tag in tags])
JoinTags(tags) == Join([k \in 1..Len(tags) |-> tags[k].tag], <<"/">>)

\* usas_tag_groups[0].tags joined; an empty list of groups is an IndexError,
\* a failed parse is re-raised as ValueError
FirstGroupTag(parsed) ==
    IF ~parsed.ok
    THEN [ok |-> FALSE, error |-> ValueError, value |-> <<>>]
    ELSE IF parsed.value = <<>>
    THEN [ok |-> FALSE, error |-> IndexError, value |-> <<>>]
    ELSE [ok |-> TRUE, error |-> "", value |-> JoinTags(parsed.value[1])]

\* ------------------------------------------------------------------------
\* parsers/benedict.py: EnglishBenedict.validate_text_string_format
\* ------------------------------------------------------------------------

special_punct_USAS_tags == {<<"P", "U", "N", "C">>, <<"-">>, <<".">>, <<",">>, <<"!">>}

MweStart == <<"[", "i">>

\* the checks without the count of the pieces
EN_split_error_no_count(token) ==
    \/ ~Contains(token, "_")
    \/ SplitOn(token, "_")[1] = <<>>

\* the underscore and token-text checks of one unit: TRUE when the unit is refused
EN_split_error(token) ==
    \/ ~Contains(token, "_")
    \/ Len(SplitOn(token, "_")) # 2
    \/ SplitOn(token, "_")[1] = <<>>

\* the payload taken to the end of the unit, marker included
EN_usas_tag_string_whole(usas_mwe_info) == usas_mwe_info

\* the tag-spec payload: the text before the first "[i" of usas_mwe_info
EN_usas_tag_string(usas_mwe_info) ==
    LET mwe_start == Find(usas_mwe_info, MweStart)
    IN  IF mwe_start = -1 THEN usas_mwe_info ELSE SubSeq(usas_mwe_info, 1, mwe_start)

\* the output tag without the check for an empty payload
EN_usas_tag_no_empty_check(usas_tag_string) ==
    IF usas_tag_string \in special_punct_USAS_tags
    THEN [ok |-> TRUE, error |-> "", value |-> PUNCT]
    ELSE FirstGroupTag(parse_usas_token_group(usas_tag_string))

\* the output tag of a payload
EN_usas_tag(usas_tag_string) ==
    IF usas_tag_string \in special_punct_USAS_tags
    THEN [ok |-> TRUE, error |-> "", value |-> PUNCT]
    ELSE IF usas_tag_string = <<>>
    THEN [ok |-> FALSE, error |-> ValueError, value |-> <<>>]
    ELSE FirstGroupTag(parse_usas_token_group(usas_tag_string))

\* the unit's token text and tag, or the exception of its tag
EN_token_outcome(token_text, t) ==
    [ok |-> t.ok, error |-> t.error,
     token_text |-> IF t.ok THEN token_text ELSE <<>>, usas_tag |-> t.value]

\* the body of the loop over the units, for the part of the unit after the underscore
EN_validate_info(token_text, usas_mwe_info) ==
    IF Find(usas_mwe_info, MweStart) = 0
    THEN [ok |-> FALSE, error |-> ValueError, token_text |-> <<>>, usas_tag |-> <<>>]
    ELSE EN_token_outcome(token_text, EN_usas_tag(EN_usas_tag_string(usas_mwe_info)))

\* the body of the loop over the units
EN_validate_token(token) ==
    IF EN_split_error(token)
    THEN [ok |-> FALSE, error |-> ValueError, token_text |-> <<>>, usas_tag |-> <<>>]
    ELSE EN_validate_info(SplitOn(token, "_")[1], SplitOn(token, "_")[2])

EN_Raise(e) == [ok |-> FALSE, error |-> e, text |-> <<>>, tokens |-> <<>>, usas_tags |-> <<>>]

EN_Return(text, token_texts, usas_tags) ==
    [ok |-> TRUE, error |-> "", text |-> text, tokens |-> token_texts, usas_tags |-> usas_tags]

\* the loop after the unit whose outcome is r
RECURSIVE EN_validate_loop(_, _, _, _)
EN_validate_next(text, tokens, token_texts, usas_tags, r) ==
    IF ~r.ok THEN EN_Raise(r.error)
    ELSE EN_validate_loop(text, Tail(tokens), Append(token_texts, r.token_text),
                          Append(usas_tags, r.usas_tag))

EN_validate_loop(text, tokens, token_texts, usas_tags) ==
    IF tokens = <<>> THEN EN_Return(text, token_texts, usas_tags)
    ELSE EN_validate_next(text, tokens, token_texts, usas_tags, EN_validate_token(Head(tokens)))

EnglishBenedict_validate_text_string_format(text) ==
    IF Strip(text) = <<>> THEN EN_Raise(ValueError)
    ELSE EN_validate_loop(text, Split(text), <<>>, <<>>)

\* ------------------------------------------------------------------------
\* parsers/benedict.py: EnglishBenedict.get_mwe_indexes
\* ------------------------------------------------------------------------

\* the third number of the marker whose second "." is at r: the position after it
mwe_pattern_third(s, r, d3) ==
    IF r <= Len(s) /\ s[r] = "." /\ d3 > 0 THEN r + 1 + d3 ELSE 0

\* the second number of the marker whose first "." is at q
mwe_pattern_second(s, q, d2) ==
    IF q <= Len(s) /\ s[q] = "." /\ d2 > 0
    THEN mwe_pattern_third(s, q + 1 + d2, DigitRun(s, q + 2 + d2))
    ELSE 0

\* the first number of the marker that starts at p
mwe_pattern_first(s, p, d1) ==
    IF d1 > 0 THEN mwe_pattern_second(s, p + 2 + d1, DigitRun(s, p + 3 + d1)) ELSE 0

\* mwe_pattern \[i(\d+)\.(\d+)\.(\d+) at position p of s: the position after
\* the match, 0 when there is no match at p
mwe_pattern(s, p) ==
    IF OccursAt(s, MweStart, p) THEN mwe_pattern_first(s, p, DigitRun(s, p + 2)) ELSE 0

\* the second and third group of the match whose first "." is at q
mwe_groups_rest(s, q, d2) ==
    <<SubSeq(s, q + 1, q + d2), SubSeq(s, q + d2 + 2, q + d2 + 1 + DigitRun(s, q + d2 + 2))>>

\* the three groups (\d+) of the match at position p whose first number has d1 digits
mwe_groups_of(s, p, d1) ==
    <<SubSeq(s, p + 2, p + 1 + d1)>> \o mwe_groups_rest(s, p + 2 + d1, DigitRun(s, p + 3 + d1))

\* the groups of the match at position p: raw id, declared total, position index
mwe_groups(s, p) == mwe_groups_of(s, p, DigitRun(s, p + 2))

\* the matches from position p on, given the end e of the match at p (0: none)
RECURSIVE mwe_pattern_findall(_, _)
mwe_pattern_findall_at(s, p, e) ==
    IF e > 0
    THEN <<mwe_groups(s, p)>> \o mwe_pattern_findall(s, e)
    ELSE mwe_pattern_findall(s, p + 1)

\* mwe_pattern.findall(s): the non-overlapping matches from position p, left to right
mwe_pattern_findall(s, p) ==
    IF p > Len(s) THEN <<>> ELSE mwe_pattern_findall_at(s, p, mwe_pattern(s, p))

\* the first of the matches, <<>> when there is none
FirstMatch(matches) == IF matches = <<>> THEN <<>> ELSE matches[1]

\* mwe_pattern.search(s): the groups of the leftmost match, <<>> when there is none
mwe_pattern_search(s) == FirstMatch(mwe_pattern_findall(s, 1))

\* the exactly-one-underscore check repeated by get_mwe_indexes
MWE_split_error(token) == Len(SplitOn(token, "_")) # 2

\* the check for several markers left out
MWE_multiple_never(usas_mwe_information) == FALSE

\* more than one marker on one unit
MWE_multiple(usas_mwe_information) == Len(mwe_pattern_findall(usas_mwe_information, 1)) > 1

\* the refusal of a unit that has "[i" but no marker
MWE_invalid_format(usas_mwe_information) ==
    /\ Find(usas_mwe_information, MweStart) # -1
    /\ ~EndsWith(usas_mwe_information, "]")

\* the scan that refuses a position index of 0 or above the declared total
MWE_scan_match_position_checked(usas_mwe_information, mwe_match) ==
    IF mwe_match # <<>>
    THEN IF MWE_multiple(usas_mwe_information)
            \/ ToInt(mwe_match[3]) = 0
            \/ ToInt(mwe_match[3]) > ToInt(mwe_match[2])
         THEN [ok |-> FALSE, error |-> ValueError, mwe_id |-> None, total_tokens |-> 0]
         ELSE [ok |-> TRUE, error |-> "", mwe_id |-> ToInt(mwe_match[1]),
               total_tokens |-> ToInt(mwe_match[2])]
    ELSE IF MWE_invalid_format(usas_mwe_information)
         THEN [ok |-> FALSE, error |-> ValueError, mwe_id |-> None, total_tokens |-> 0]
         ELSE [ok |-> TRUE, error |-> "", mwe_id |-> None, total_tokens |-> 0]

\* one unit of the scan, given the match of the search
MWE_scan_match(usas_mwe_information, mwe_match) ==
    IF mwe_match # <<>>
    THEN IF MWE_multiple(usas_mwe_information)
         THEN [ok |-> FALSE, error |-> ValueError, mwe_id |-> None, total_tokens |-> 0]
         ELSE [ok |-> TRUE, error |-> "", mwe_id |-> ToInt(mwe_match[1]),
               total_tokens |-> ToInt(mwe_match[2])]
    ELSE IF MWE_invalid_format(usas_mwe_information)
         THEN [ok |-> FALSE, error |-> ValueError, mwe_id |-> None, total_tokens |-> 0]
         ELSE [ok |-> TRUE, error |-> "", mwe_id |-> None, total_tokens |-> 0]

\* one unit of the scan, for the part after the underscore: the raw id and the
\* declared total of its marker, None when it has no marker
MWE_scan_info(usas_mwe_information) ==
    MWE_scan_match(usas_mwe_information, mwe_pattern_search(usas_mwe_information))

\* the marker searched in the whole unit, token text included
MWE_information_whole(token) == token

\* the part of a unit that is searched for the marker
MWE_information(token) == SplitOn(token, "_")[2]

\* one unit of the scan
MWE_scan_token(token) ==
    IF MWE_split_error(token)
    THEN [ok |-> FALSE, error |-> ValueError, mwe_id |-> None, total_tokens |-> 0]
    ELSE MWE_scan_info(MWE_information(token))

EmptyDict == [id \in {} |-> 0]

\* mwe_data when every unit of an id overwrites the total of that id
MWE_store_last_total(mwe_data, mwe_id, total_tokens, token_index) ==
    IF mwe_id \in DOMAIN mwe_data
    THEN [mwe_data EXCEPT ![mwe_id].token_indices = Append(@, token_index),
                          ![mwe_id].total_tokens = total_tokens]
    ELSE mwe_data @@ (mwe_id :> [total_tokens |-> total_tokens, token_indices |-> <<token_index>>])

\* mwe_data after the unit at token_index: the first unit of an id sets its total
MWE_store(mwe_data, mwe_id, total_tokens, token_index) ==
    IF mwe_id \in DOMAIN mwe_data
    THEN [mwe_data EXCEPT ![mwe_id].token_indices = Append(@, token_index)]
    ELSE mwe_data @@ (mwe_id :> [total_tokens |-> total_tokens, token_indices |-> <<token_index>>])

\* the count check that lets an id with too few units pass
MWE_consistent_at_most(mwe_data) ==
    \A mwe_id \in DOMAIN mwe_data :
        Len(mwe_data[mwe_id].token_indices) <= mwe_data[mwe_id].total_tokens

\* the count check that also wants the units of an id to be adjacent
MWE_consistent_adjacent(mwe_data) ==
    \A mwe_id \in DOMAIN mwe_data :
        /\ Len(mwe_data[mwe_id].token_indices) = mwe_data[mwe_id].total_tokens
        /\ \A k \in 1..(Len(mwe_data[mwe_id].token_indices) - 1) :
              mwe_data[mwe_id].token_indices[k + 1] = mwe_data[mwe_id].token_indices[k] + 1

\* the count check: every id has as many units as its declared total
MWE_consistent(mwe_data) ==
    \A mwe_id \in DOMAIN mwe_data :
        Len(mwe_data[mwe_id].token_indices) = mwe_data[mwe_id].total_tokens

\* sorted(S) for a set of integers
RECURSIVE sorted(_)
sorted(S) ==
    IF S = {} THEN <<>>
    ELSE LET m == CHOOSE x \in S : \A y \in S : x <= y
         IN  <<m>> \o sorted(S \ {m})

\* the remap by order of first appearance in the line
mwe_id_to_int_first_seen(mwe_data) ==
    [mwe_id \in DOMAIN mwe_data |->
        Cardinality({j \in DOMAIN mwe_data :
                        mwe_data[j].token_indices[1] <= mwe_data[mwe_id].token_indices[1]})]

\* the remap of the raw ids: position in the sorted ids, from 1
mwe_id_to_int(mwe_data) ==
    LET unique_mwe_ids == sorted(DOMAIN mwe_data)
    IN  [mwe_id \in DOMAIN mwe_data |->
            CHOOSE idx \in 1..Len(unique_mwe_ids) : unique_mwe_ids[idx] = mwe_id]

\* the result list that leaves out the units without marker
MWE_build_result_marked_only(token_mwe_mapping, id_to_int) ==
    [k \in 1..Len(SelectSeq(token_mwe_mapping, LAMBDA m : m # None)) |->
        {id_to_int[SelectSeq(token_mwe_mapping, LAMBDA m : m # None)[k]]}]

\* the result list: one set per unit
MWE_build_result(token_mwe_mapping, id_to_int) ==
    [k \in 1..Len(token_mwe_mapping) |->
        IF token_mwe_mapping[k] # None THEN {id_to_int[token_mwe_mapping[k]]} ELSE {}]

MWE_Raise(e) == [ok |-> FALSE, error |-> e, value |-> <<>>]

MWE_Return(v) == [ok |-> TRUE, error |-> "", value |-> v]

\* the code after the scan: count check, remap, result
MWE_finish(mwe_data, token_mwe_mapping) ==
    IF ~MWE_consistent(mwe_data) THEN MWE_Raise(ValueError)
    ELSE MWE_Return(MWE_build_result(token_mwe_mapping, mwe_id_to_int(mwe_data)))

\* the scan after the unit at token_index, whose outcome is r
RECURSIVE MWE_scan_loop(_, _, _, _)
MWE_scan_next(tokens, token_index, mwe_data, token_mwe_mapping, r) ==
    IF ~r.ok THEN MWE_Raise(r.error)
    ELSE MWE_scan_loop(tokens, token_index + 1,
                       IF r.mwe_id # None
                       THEN MWE_store(mwe_data, r.mwe_id, r.total_tokens, token_index)
                       ELSE mwe_data,
                       Append(token_mwe_mapping, r.mwe_id))

MWE_scan_loop(tokens, token_index, mwe_data, token_mwe_mapping) ==
    IF token_index >= Len(tokens) THEN MWE_finish(mwe_data, token_mwe_mapping)
    ELSE MWE_scan_next(tokens, token_index, mwe_data, token_mwe_mapping,
                       MWE_scan_token(tokens[token_index + 1]))

get_mwe_indexes(text) ==
    IF Strip(text) = <<>> THEN MWE_Return(<<>>)
    ELSE MWE_scan_loop(Split(text), 0, EmptyDict, <<>>)

\* ------------------------------------------------------------------------
\* parsers/benedict.py: FinnishBenedict.validate_text_string_format
\* ------------------------------------------------------------------------

special_punctuation == {<<"-">>, <<".">>, <<",">>, <<"!">>, <<":">>, <<"(">>, <<")">>, <<"\"">>, <<"?">>}

\* the match that takes any third segment for the flag
FI_format_error_any_third(segmented_token_usas_mwe) ==
    CASE Len(segmented_token_usas_mwe) = 1 -> segmented_token_usas_mwe[1] \notin special_punctuation
      [] Len(segmented_token_usas_mwe) \in {2, 3} -> FALSE
      [] OTHER -> TRUE

\* the match on the number of segments: TRUE when the unit is refused there
FI_format_error(segmented_token_usas_mwe) ==
    CASE Len(segmented_token_usas_mwe) = 1 -> segmented_token_usas_mwe[1] \notin special_punctuation
      [] Len(segmented_token_usas_mwe) = 2 -> FALSE
      [] Len(segmented_token_usas_mwe) = 3 -> segmented_token_usas_mwe[3] # <<"i">>
      [] OTHER -> TRUE

\* usas_tag_string set by the match
FI_usas_tag_string(segmented_token_usas_mwe) ==
    IF Len(segmented_token_usas_mwe) = 1 THEN PUNCT ELSE segmented_token_usas_mwe[2]

\* mwe_index after the match: a flagged unit opens a new run when the flag was down
FI_mwe_index(mwe_index, is_mwe, segmented_token_usas_mwe) ==
    IF Len(segmented_token_usas_mwe) = 3 /\ ~is_mwe THEN mwe_index + 1 ELSE mwe_index

\* is_mwe that is never cleared by a unit without the flag
FI_is_mwe_sticky(is_mwe, segmented_token_usas_mwe) ==
    is_mwe \/ Len(segmented_token_usas_mwe) = 3

\* is_mwe after the match
FI_is_mwe(is_mwe, segmented_token_usas_mwe) == Len(segmented_token_usas_mwe) = 3

\* the output tag of usas_tag_string
FI_usas_tag(usas_tag_string) ==
    IF usas_tag_string = PUNCT
    THEN [ok |-> TRUE, error |-> "", value |-> PUNCT]
    ELSE FirstGroupTag(parse_usas_token_group(usas_tag_string))

\* the locals with the group counter of a line that already had one run
FI_frame0_counter_kept ==
    [all_tokens |-> <<>>, all_usas_tags |-> <<>>, all_mwe_indexes |-> <<>>,
     mwe_index |-> 1, is_mwe |-> FALSE]

FI_frame0 == [all_tokens |-> <<>>, all_usas_tags |-> <<>>, all_mwe_indexes |-> <<>>,
              mwe_index |-> 0, is_mwe |-> FALSE]

\* the locals after a unit, or the exception it raises
FI_step_outcome(frame, segs, mwe_index, is_mwe, t) ==
    IF FI_format_error(segs) \/ Strip(segs[1]) = <<>>
    THEN [ok |-> FALSE, error |-> ValueError, frame |-> frame]
    ELSE IF ~t.ok
    THEN [ok |-> FALSE, error |-> t.error, frame |-> frame]
    ELSE [ok |-> TRUE, error |-> "",
          frame |-> [all_tokens |-> Append(frame.all_tokens, segs[1]),
                     all_usas_tags |-> Append(frame.all_usas_tags, t.value),
                     all_mwe_indexes |-> Append(frame.all_mwe_indexes,
                                                IF is_mwe THEN {mwe_index} ELSE {}),
                     mwe_index |-> mwe_index,
                     is_mwe |-> is_mwe]]

\* the body of the loop over the units, for a unit split on "_"
FI_step_segments(frame, segs) ==
    FI_step_outcome(frame, segs,
                    FI_mwe_index(frame.mwe_index, frame.is_mwe, segs),
                    FI_is_mwe(frame.is_mwe, segs),
                    FI_usas_tag(FI_usas_tag_string(segs)))

\* the body of the loop over the units
FI_step(frame, token_usas_mwe) == FI_step_segments(frame, SplitOn(token_usas_mwe, "_"))

FI_Raise(e) == [ok |-> FALSE, error |-> e, text |-> <<>>, tokens |-> <<>>,
                semantic_tags |-> <<>>, mwe_indexes |-> <<>>]

\* EvaluationTexts(text, tokens, lemmas=None, pos_tags=None, semantic_tags, mwe_indexes)
FI_Return(text, frame) ==
    [ok |-> TRUE, error |-> "", text |-> text, tokens |-> frame.all_tokens,
     semantic_tags |-> frame.all_usas_tags, mwe_indexes |-> frame.all_mwe_indexes]

\* the loop after the unit whose outcome is r
RECURSIVE FI_loop(_, _, _)
FI_next(text, all_token_usas_mwe, r) ==
    IF ~r.ok THEN FI_Raise(r.error)
    ELSE FI_loop(text, Tail(all_token_usas_mwe), r.frame)

FI_loop(text, all_token_usas_mwe, frame) ==
    IF all_token_usas_mwe = <<>> THEN FI_Return(text, frame)
    ELSE FI_next(text, all_token_usas_mwe, FI_step(frame, Head(all_token_usas_mwe)))

FinnishBenedict_validate_text_string_format(text) ==
    IF Strip(text) = <<>> THEN FI_Raise(ValueError)
    ELSE FI_loop(Strip(text), Split(Strip(text)), FI_frame0)

\* ------------------------------------------------------------------------
\* The lines given to the three functions
\* ------------------------------------------------------------------------

\* longest line, in units, built from CoreUnits
MaxUnits == 3

\* longest line, in units, built from AllUnits
MaxEdgeUnits == 2

\* a_F2
U_plain == <<"a", "_", "F", "2">>

\* a_F2[i2.2.1
U_id2_of2 == <<"a", "_", "F", "2", "[", "i", "2", ".", "2", ".", "1">>

\* a_F2[i10.1.1
U_id10_of1 == <<"a", "_", "F", "2", "[", "i", "1", "0", ".", "1", ".", "1">>

\* b_Z1[i03.1.7
U_id03_of1 == <<"b", "_", "Z", "1", "[", "i", "0", "3", ".", "1", ".", "7">>

\* b_A3+_i
U_flagged == <<"b", "_", "A", "3", "+", "_", "i">>

\* .
U_dot == <<".">>

\* a_F2[i2.1.1
U_id2_of1 == <<"a", "_", "F", "2", "[", "i", "2", ".", "1", ".", "1">>

\* a_F2[i2.1.1[i10.1.1
U_two_markers == <<"a", "_", "F", "2", "[", "i", "2", ".", "1", ".", "1", "[", "i", "1", "0", ".", "1", ".", "1">>

\* a_F2[i2.1
U_two_numbers == <<"a", "_", "F", "2", "[", "i", "2", ".", "1">>

\* a_F2[i2.1]
U_two_numbers_closed == <<"a", "_", "F", "2", "[", "i", "2", ".", "1", "]">>

\* a_F2/O4.5[i2.2.2]
U_closed == <<"a", "_", "F", "2", "/", "O", "4", ".", "5", "[", "i", "2", ".", "2", ".", "2", "]">>

\* a[i_F2[i2.1.1
U_text_marker == <<"a", "[", "i", "_", "F", "2", "[", "i", "2", ".", "1", ".", "1">>

\* a[i_F2
U_text_start == <<"a", "[", "i", "_", "F", "2">>

\* a
U_no_underscore == <<"a">>

\* _F2
U_no_text == <<"_", "F", "2">>

\* a_
U_no_tag == <<"a", "_">>

\* a_F2_x
U_third_x == <<"a", "_", "F", "2", "_", "x">>

\* a_F2_i_i
U_three_underscores == <<"a", "_", "F", "2", "_", "i", "_", "i">>

\* a_[i2.1.1
U_marker_only == <<"a", "_", "[", "i", "2", ".", "1", ".", "1">>

\* a_x1
U_bad_tag == <<"a", "_", "x", "1">>

\* a_PUNC
U_punc == <<"a", "_", "P", "U", "N", "C">>

\* _F2_i
U_no_text_flagged == <<"_", "F", "2", "_", "i">>

\* a__i
U_no_tag_flagged == <<"a", "_", "_", "i">>

\* "
U_quote == <<"\"">>

\* -_-
U_dash == <<"-", "_", "-">>

\* ._.
U_dot_tag == <<".", "_", ".">>

\* ,_,[i2.1.1 with the id written as the Arabic-Indic digit two
U_comma_marked == <<",", "_", ",", "[", "i", "U+0662", ".", "1", ".", "1">>

\* a_!
U_bang == <<"a", "_", "!">>

\* c_S2mf/A1%@cn+-
U_markers == <<"c", "_", "S", "2", "m", "f", "/", "A", "1", "%", "@", "c", "n", "+", "-">>

CoreUnits == {U_plain, U_id2_of2, U_id10_of1, U_id03_of1, U_flagged, U_dot}

AllUnits == CoreUnits \cup {U_id2_of1,
                          U_two_markers,
                          U_two_numbers,
                          U_two_numbers_closed,
                          U_closed,
                          U_text_marker,
                          U_text_start,
                          U_no_underscore,
                          U_no_text,
                          U_no_tag,
                          U_third_x,
                          U_three_underscores,
                          U_marker_only,
                          U_bad_tag,
                          U_punc,
                          U_no_text_flagged,
                          U_no_tag_flagged,
                          U_quote,
                          U_dash,
                          U_dot_tag,
                          U_comma_marked,
                          U_bang,
                          U_markers}

SeqsUpTo(S, n) == UNION {[1..m -> S] : m \in 0..n}

UnitLines == SeqsUpTo(CoreUnits, MaxUnits) \cup SeqsUpTo(AllUnits, MaxEdgeUnits)

\* the units joined by one space, or by a tab and a no-break space with a
\* leading line feed and a trailing carriage return
LineOf(us, padded) ==
    IF padded THEN <<"\n">> \o Join(us, <<"\t", "U+00A0">>) \o <<"\r">> ELSE Join(us, <<" ">>)

\* ------------------------------------------------------------------------
\* State: one line, and the three functions run on it one after the other,
\* each loop one unit per step
\* ------------------------------------------------------------------------

VARIABLES
    text,          \* the line
    pc,            \* the function that runs, or the point between two calls
    units,         \* text.split() of the call that runs
    token_index,   \* the units the running loop has consumed
    en,            \* locals of EnglishBenedict.validate_text_string_format
    mwe,           \* locals of EnglishBenedict.get_mwe_indexes
    fi,            \* locals of FinnishBenedict.validate_text_string_format
    ret_en,        \* outcome of EnglishBenedict.validate_text_string_format
    ret_mwe,       \* outcome of EnglishBenedict.get_mwe_indexes
    ret_fi         \* outcome of FinnishBenedict.validate_text_string_format

VARIABLES
    usas_tag_group_text,   \* the argument of parse_usas_token_group
    tg_pc,                 \* the point parse_usas_token_group has reached
    tg_atoms,              \* re.findall(r"\S+", usas_tag_group_text)
    tg_index,              \* the atoms its loop has consumed
    token_usas_tags,       \* the groups collected so far
    ret_tg                 \* outcome of parse_usas_token_group

line_vars == <<text, pc, units, token_index, en, mwe, fi, ret_en, ret_mwe, ret_fi>>

tag_vars == <<usas_tag_group_text, tg_pc, tg_atoms, tg_index, token_usas_tags, ret_tg>>

VARIABLES
    dataset,               \* the lines of the file at dataset_path
    label_validation,      \* the argument label_validation: a set of labels or None
    label_filter,          \* the argument label_filter: a set of labels or None
    parse_pc,              \* the parse method that runs and the point it has reached
    line_index,            \* the lines its loop has consumed
    evaluation_texts,      \* the texts collected so far
    ret_parse              \* outcome of parse

parse_vars == <<dataset, label_validation, label_filter, parse_pc, line_index,
                evaluation_texts, ret_parse>>

VARIABLES
    csv_field_names,       \* TorchParser.parse: the field names of the CSV file, or None
    sentence_tokens,       \* TorchParser.parse: tokens, the tokens of the open sentence
    sentence_tags          \* TorchParser.parse: semantic_tags of the open sentence

corpus_vars == <<csv_field_names, sentence_tokens, sentence_tags>>

VARIABLES
    texts_args,            \* the arguments of a call EvaluationTexts(...)
    texts_pc,              \* the point the call has reached
    ret_texts              \* outcome of the call

texts_vars == <<texts_args, texts_pc, ret_texts>>

vars == <<line_vars, tag_vars, parse_vars, corpus_vars, texts_vars>>

\* an optional argument or field: None, or a value
NoValue == <<>>

Some(x) == <<x>>

\* the outcome of parse: the EvaluationDataset, or the exception raised
Parse_Raise(e) == [ok |-> FALSE, error |-> e, value |-> NoValue]

Parse_Return(d) == [ok |-> TRUE, error |-> "", value |-> Some(d)]

\* the outcome of one line of the file: skipped, a text, or the exception raised
Line_Raise(e) == [ok |-> FALSE, error |-> e, skipped |-> FALSE, evaluation_text |-> NoValue]

Line_Skip == [ok |-> TRUE, error |-> "", skipped |-> TRUE, evaluation_text |-> NoValue]

Line_Text(t) == [ok |-> TRUE, error |-> "", skipped |-> FALSE, evaluation_text |-> Some(t)]

\* no call of parse under way
ParseIdle ==
    /\ dataset = <<>>
    /\ label_validation = NoValue
    /\ label_filter = NoValue
    /\ parse_pc = "idle"
    /\ line_index = 0
    /\ evaluation_texts = <<>>
    /\ ret_parse = Parse_Raise(NotCalled)

\* no sentence open and no CSV file read
CorpusIdle ==
    /\ csv_field_names = NoValue
    /\ sentence_tokens = <<>>
    /\ sentence_tags = <<>>

\* the arguments of EvaluationTexts(...): the optional lists None
NoTextsArgs ==
    [text |-> <<>>, tokens |-> <<>>, lemmas |-> NoValue, pos_tags |-> NoValue,
     semantic_tags |-> NoValue, mwe_indexes |-> NoValue]

\* no call of EvaluationTexts(...) under way
TextsIdle ==
    /\ texts_args = NoTextsArgs
    /\ texts_pc = "idle"
    /\ ret_texts = Line_Raise(NotCalled)

\* the outcome of parse_usas_token_group: the groups, or the ValueError with
\* the text its message carries
TG_Raise(e, usas_tag_text) ==
    [ok |-> FALSE, error |-> e, message |-> usas_tag_text, value |-> <<>>]

TG_Return(groups) == [ok |-> TRUE, error |-> "", message |-> <<>>, value |-> groups]

\* no call of parse_usas_token_group under way
TagIdle ==
    /\ usas_tag_group_text = <<>>
    /\ tg_pc = "idle"
    /\ tg_atoms = <<>>
    /\ tg_index = 0
    /\ token_usas_tags = <<>>
    /\ ret_tg = TG_Raise(NotCalled, <<>>)

EN_frame0 == [token_texts |-> <<>>, usas_tags |-> <<>>]

MWE_frame0 == [mwe_data |-> EmptyDict, token_mwe_mapping |-> <<>>]

Init ==
    /\ \E us \in UnitLines : \E padded \in BOOLEAN : text = LineOf(us, padded)
    /\ pc = "start"
    /\ units = <<>>
    /\ token_index = 0
    /\ en = EN_frame0
    /\ mwe = MWE_frame0
    /\ fi = FI_frame0
    /\ ret_en = EN_Raise(NotCalled)
    /\ ret_mwe = MWE_Raise(NotCalled)
    /\ ret_fi = FI_Raise(NotCalled)
    /\ TagIdle
    /\ ParseIdle
    /\ CorpusIdle
    /\ TextsIdle

\* EnglishBenedict.validate_text_string_format: the empty check and the split
EN_Call ==
    /\ pc = "start"
    /\ IF Strip(text) = <<>>
       THEN /\ ret_en' = EN_Raise(ValueError)
            /\ pc' = "en_done"
            /\ UNCHANGED units
       ELSE /\ units' = Split(text)
            /\ pc' = "en_loop"
            /\ UNCHANGED ret_en
    /\ token_index' = 0
    /\ en' = EN_frame0
    /\ UNCHANGED <<text, mwe, fi, ret_mwe, ret_fi, tag_vars, parse_vars, corpus_vars, texts_vars>>

\* one unit of the loop of validate_text_string_format
EN_Step ==
    /\ pc = "en_loop"
    /\ token_index < Len(units)
    /\ LET r == EN_validate_token(units[token_index + 1])
       IN  IF r.ok
           THEN /\ en' = [token_texts |-> Append(en.token_texts, r.token_text),
                          usas_tags |-> Append(en.usas_tags, r.usas_tag)]
                /\ token_index' = token_index + 1
                /\ UNCHANGED <<pc, ret_en>>
           ELSE /\ ret_en' = EN_Raise(r.error)
                /\ pc' = "en_done"
                /\ UNCHANGED <<en, token_index>>
    /\ UNCHANGED <<text, units, mwe, fi, ret_mwe, ret_fi, tag_vars, parse_vars, corpus_vars, texts_vars>>

\* return (text, token_texts, usas_tags)
EN_Done ==
    /\ pc = "en_loop"
    /\ token_index = Len(units)
    /\ ret_en' = EN_Return(text, en.token_texts, en.usas_tags)
    /\ pc' = "en_done"
    /\ UNCHANGED <<text, units, token_index, en, mwe, fi, ret_mwe, ret_fi, tag_vars, parse_vars, corpus_vars, texts_vars>>

\* EnglishBenedict.get_mwe_indexes: the empty check and the split
MWE_Call ==
    /\ pc = "en_done"
    /\ IF Strip(text) = <<>>
       THEN /\ ret_mwe' = MWE_Return(<<>>)
            /\ pc' = "mwe_done"
            /\ UNCHANGED units
       ELSE /\ units' = Split(text)
            /\ pc' = "mwe_loop"
            /\ UNCHANGED ret_mwe
    /\ token_index' = 0
    /\ mwe' = MWE_frame0
    /\ UNCHANGED <<text, en, fi, ret_en, ret_fi, tag_vars, parse_vars, corpus_vars, texts_vars>>

\* one unit of the scan of get_mwe_indexes
MWE_Step ==
    /\ pc = "mwe_loop"
    /\ token_index < Len(units)
    /\ LET r == MWE_scan_token(units[token_index + 1])
       IN  IF r.ok
           THEN /\ mwe' = [mwe_data |-> IF r.mwe_id # None
                                        THEN MWE_store(mwe.mwe_data, r.mwe_id, r.total_tokens, token_index)
                                        ELSE mwe.mwe_data,
                           token_mwe_mapping |-> Append(mwe.token_mwe_mapping, r.mwe_id)]
                /\ token_index' = token_index + 1
                /\ UNCHANGED <<pc, ret_mwe>>
           ELSE /\ ret_mwe' = MWE_Raise(r.error)
                /\ pc' = "mwe_done"
                /\ UNCHANGED <<mwe, token_index>>
    /\ UNCHANGED <<text, units, en, fi, ret_en, ret_fi, tag_vars, parse_vars, corpus_vars, texts_vars>>

\* the count check, the remap and the result of get_mwe_indexes
MWE_Done ==
    /\ pc = "mwe_loop"
    /\ token_index = Len(units)
    /\ ret_mwe' = MWE_finish(mwe.mwe_data, mwe.token_mwe_mapping)
    /\ pc' = "mwe_done"
    /\ UNCHANGED <<text, units, token_index, en, mwe, fi, ret_en, ret_fi, tag_vars, parse_vars, corpus_vars, texts_vars>>

\* FinnishBenedict.validate_text_string_format: strip, the empty check and the split
FI_Call ==
    /\ pc = "mwe_done"
    /\ IF Strip(text) = <<>>
       THEN /\ ret_fi' = FI_Raise(ValueError)
            /\ pc' = "done"
            /\ UNCHANGED units
       ELSE /\ units' = Split(Strip(text))
            /\ pc' = "fi_loop"
            /\ UNCHANGED ret_fi
    /\ token_index' = 0
    /\ fi' = FI_frame0
    /\ UNCHANGED <<text, en, mwe, ret_en, ret_mwe, tag_vars, parse_vars, corpus_vars, texts_vars>>

\* one unit of the loop of the Finnish validator
FI_Step ==
    /\ pc = "fi_loop"
    /\ token_index < Len(units)
    /\ LET r == FI_step(fi, units[token_index + 1])
       IN  IF r.ok
           THEN /\ fi' = r.frame
                /\ token_index' = token_index + 1
                /\ UNCHANGED <<pc, ret_fi>>
           ELSE /\ ret_fi' = FI_Raise(r.error)
                /\ pc' = "done"
                /\ UNCHANGED <<fi, token_index>>
    /\ UNCHANGED <<text, units, en, mwe, ret_en, ret_mwe, tag_vars, parse_vars, corpus_vars, texts_vars>>

\* return EvaluationTexts(...)
FI_Done ==
    /\ pc = "fi_loop"
    /\ token_index = Len(units)
    /\ ret_fi' = FI_Return(Strip(text), fi)
    /\ pc' = "done"
    /\ UNCHANGED <<text, units, token_index, en, mwe, fi, ret_en, ret_mwe, tag_vars, parse_vars, corpus_vars, texts_vars>>

Next ==
    \/ EN_Call \/ EN_Step \/ EN_Done
    \/ MWE_Call \/ MWE_Step \/ MWE_Done
    \/ FI_Call \/ FI_Step \/ FI_Done

Spec == Init /\ [][Next]_vars

\* the loops compute what the functions return
LoopsAgree ==
    /\ pc \in {"en_done", "mwe_loop", "mwe_done", "fi_loop", "done"}
          => ret_en = EnglishBenedict_validate_text_string_format(text)
    /\ pc \in {"mwe_done", "fi_loop", "done"} => ret_mwe = get_mwe_indexes(text)
    /\ pc = "done" => ret_fi = FinnishBenedict_validate_text_string_format(text)

\* ------------------------------------------------------------------------
\* The strings given to parse_usas_token_group, and its loop one atom per step
\* ------------------------------------------------------------------------

\* longest run of characters after the head of an atom
MaxRest == 3

\* longest text, in atoms, built from TagAtoms
MaxAtoms == 2

\* longest run of "+", "-" and "m" after the code A1
MaxSigns == 4

\* the heads of the atoms: A1, Z12.3.45, A1., A1..2, A.1, AB1, a1, 1A, PUNCT, PUNC,
\* (nothing), A3 with an Arabic-Indic three, A1.2 with a fullwidth two
TagHeads ==
    {<<"A", "1">>,
     <<"A", "U+0663">>,
     <<"A", "1", ".", "U+FF12">>,
     <<"Z", "1", "2", ".", "3", ".", "4", "5">>,
     <<"A", "1", ".">>,
     <<"A", "1", ".", ".", "2">>,
     <<"A", ".", "1">>,
     <<"A", "B", "1">>,
     <<"a", "1">>,
     <<"1", "A">>,
     <<"P", "U", "N", "C", "T">>,
     <<"P", "U", "N", "C">>,
     <<>>}

\* the characters that follow a head: the eight markers and a letter that is none
RestChars == {"+", "-", "m", "f", "%", "@", "c", "n", "x"}

\* the atoms of the longer texts: A1, Z2/S2mf, E3-/x, x, A1/, /
TagAtoms ==
    {<<"A", "1">>,
     <<"Z", "2", "/", "S", "2", "m", "f">>,
     <<"E", "3", "-", "/", "x">>,
     <<"x">>,
     <<"A", "1", "/">>,
     <<"/">>}

\* a head followed by a run of characters, or the code A1 followed by "+", "-"
\* and "m", or atoms separated by whitespace
TagTexts ==
    {h \o r : h \in TagHeads, r \in SeqsUpTo(RestChars, MaxRest)}
        \cup {<<"A", "1">> \o r : r \in SeqsUpTo({"+", "-", "m"}, MaxSigns)}
        \cup {LineOf(as, padded) : as \in SeqsUpTo(TagAtoms, MaxAtoms), padded \in BOOLEAN}

\* no line function under way
LineIdle ==
    /\ text = <<>>
    /\ pc = "idle"
    /\ units = <<>>
    /\ token_index = 0
    /\ en = EN_frame0
    /\ mwe = MWE_frame0
    /\ fi = FI_frame0
    /\ ret_en = EN_Raise(NotCalled)
    /\ ret_mwe = MWE_Raise(NotCalled)
    /\ ret_fi = FI_Raise(NotCalled)

TagInit ==
    /\ usas_tag_group_text \in TagTexts
    /\ tg_pc = "start"
    /\ tg_atoms = <<>>
    /\ tg_index = 0
    /\ token_usas_tags = <<>>
    /\ ret_tg = TG_Raise(NotCalled, <<>>)
    /\ LineIdle
    /\ ParseIdle
    /\ CorpusIdle
    /\ TextsIdle

\* the first piece that parse_usas_tag refuses: its ValueError names that piece
FirstRefused(pieces) ==
    pieces[CHOOSE k \in 1..Len(pieces) :
              /\ ~parse_usas_tag(pieces[k]).ok
              /\ \A j \in 1..(k - 1) : parse_usas_tag(pieces[j]).ok]

\* the error that carries the atom
TG_group_outcome_atom(usas_tag_group, group) ==
    IF group.ok
    THEN TG_Return(group.value)
    ELSE TG_Raise(ValueError, usas_tag_group)

\* one atom of the loop: its group, or the ValueError of its first refused piece
TG_group_outcome(usas_tag_group, group) ==
    IF group.ok
    THEN TG_Return(group.value)
    ELSE TG_Raise(ValueError, FirstRefused(SplitOn(usas_tag_group, "/")))

TG_group(usas_tag_group) == TG_group_outcome(usas_tag_group, USASTagGroup(usas_tag_group))

\* parse_usas_token_group: re.findall(r"\S+", usas_tag_group_text)
TG_Call ==
    /\ tg_pc = "start"
    /\ tg_atoms' = Split(usas_tag_group_text)
    /\ tg_index' = 0
    /\ token_usas_tags' = <<>>
    /\ tg_pc' = "loop"
    /\ UNCHANGED <<usas_tag_group_text, ret_tg, line_vars, parse_vars, corpus_vars, texts_vars>>

\* one atom: its pieces parsed and appended as one group
TG_Step ==
    /\ tg_pc = "loop"
    /\ tg_index < Len(tg_atoms)
    /\ LET r == TG_group(tg_atoms[tg_index + 1])
       IN  IF r.ok
           THEN /\ token_usas_tags' = Append(token_usas_tags, r.value)
                /\ tg_index' = tg_index + 1
                /\ UNCHANGED <<tg_pc, ret_tg>>
           ELSE /\ ret_tg' = r
                /\ tg_pc' = "done"
                /\ UNCHANGED <<token_usas_tags, tg_index>>
    /\ UNCHANGED <<usas_tag_group_text, tg_atoms, line_vars, parse_vars, corpus_vars, texts_vars>>

\* return token_usas_tags
TG_Done ==
    /\ tg_pc = "loop"
    /\ tg_index = Len(tg_atoms)
    /\ ret_tg' = TG_Return(token_usas_tags)
    /\ tg_pc' = "done"
    /\ UNCHANGED <<usas_tag_group_text, tg_atoms, tg_index, token_usas_tags, line_vars, parse_vars, corpus_vars, texts_vars>>

TagNext == TG_Call \/ TG_Step \/ TG_Done

TagSpec == TagInit /\ [][TagNext]_vars

\* the loop computes what the function returns
TagLoopAgrees ==
    tg_pc = "done" =>
        /\ ret_tg.ok = parse_usas_token_group(usas_tag_group_text).ok
        /\ ret_tg.error = parse_usas_token_group(usas_tag_group_text).error
        /\ ret_tg.value = parse_usas_token_group(usas_tag_group_text).value

\* ------------------------------------------------------------------------
\* dataset.py: EvaluationTexts; parsers/benedict.py: the two parse methods, one
\* line of the file per step
\* ------------------------------------------------------------------------

\* an optional list that is given and whose length is not number_tokens
LengthDiffers(number_tokens, optional_list) ==
    optional_list # NoValue /\ number_tokens # Len(optional_list[1])

\* the check that leaves mwe_indexes out
check_lists_match_no_mwe(t) ==
    \/ LengthDiffers(Len(t.tokens), t.lemmas)
    \/ LengthDiffers(Len(t.tokens), t.pos_tags)
    \/ LengthDiffers(Len(t.tokens), t.semantic_tags)

\* EvaluationTexts.check_lists_match: TRUE when it raises
check_lists_match(t) ==
    \/ LengthDiffers(Len(t.tokens), t.lemmas)
    \/ LengthDiffers(Len(t.tokens), t.pos_tags)
    \/ LengthDiffers(Len(t.tokens), t.semantic_tags)
    \/ LengthDiffers(Len(t.tokens), t.mwe_indexes)

\* the construction of an EvaluationTexts from its fields
EvaluationTexts_validated(t) ==
    IF check_lists_match(t) THEN Line_Raise(ValueError) ELSE Line_Text(t)

EvaluationTexts(text_, tokens, lemmas, pos_tags, semantic_tags, mwe_indexes) ==
    EvaluationTexts_validated([text |-> text_, tokens |-> tokens, lemmas |-> lemmas,
                               pos_tags |-> pos_tags, semantic_tags |-> semantic_tags,
                               mwe_indexes |-> mwe_indexes])

\* the check that looks at the start of the token text only
token_is_a_tag_start(token) == parse_usas_token_group(SplitOn(token, "/")[1]).ok

\* parse_usas_token_group(token) does not raise: the token text is a tag
token_is_a_tag(token) == parse_usas_token_group(token).ok

\* the filter that blanks a tag when one of its codes is in the filter
filtered_any_code(usas_tag, label_filter_) ==
    IF label_filter_ # NoValue
          /\ \E k \in 1..Len(SplitOn(usas_tag, "/")) : SplitOn(usas_tag, "/")[k] \in label_filter_[1]
    THEN <<>>
    ELSE usas_tag

\* label filtering of one tag: the empty string when the tag is in label_filter
filtered(usas_tag, label_filter_) ==
    IF label_filter_ # NoValue /\ usas_tag \in label_filter_[1] THEN <<>> ELSE usas_tag

\* the validation that looks the whole tag string up, without splitting it
label_not_valid_whole(usas_tag, label_validation_) ==
    /\ label_validation_ # NoValue
    /\ usas_tag \notin {PUNCT, <<>>}
    /\ usas_tag \notin label_validation_[1]

\* label validation of one tag: TRUE when it raises
label_not_valid(usas_tag, label_validation_) ==
    /\ label_validation_ # NoValue
    /\ usas_tag \notin {PUNCT, <<>>}
    /\ \E k \in 1..Len(SplitOn(usas_tag, "/")) :
          SplitOn(usas_tag, "/")[k] \notin label_validation_[1]

\* EnglishBenedict.parse, one line: the text built from the MWE indexes
EN_parse_mwe(v, usas_tags, m) ==
    IF ~m.ok THEN Line_Raise(m.error)
    ELSE EvaluationTexts(v.text, v.tokens, NoValue, NoValue, Some(usas_tags), Some(m.value))

\* EnglishBenedict.parse, one line: label validation of the filtered tags
EN_parse_filtered(v, usas_tags, label_validation_) ==
    IF \E k \in 1..Len(usas_tags) : label_not_valid(usas_tags[k], label_validation_)
    THEN Line_Raise(ValueError)
    ELSE EN_parse_mwe(v, usas_tags, get_mwe_indexes(v.text))

\* EnglishBenedict.parse, one line: the token check and the label filtering
EN_parse_validated(v, label_validation_, label_filter_) ==
    IF ~v.ok THEN Line_Raise(v.error)
    ELSE IF \E k \in 1..Len(v.tokens) : token_is_a_tag(v.tokens[k])
    THEN Line_Raise(ValueError)
    ELSE EN_parse_filtered(v, [k \in 1..Len(v.usas_tags) |-> filtered(v.usas_tags[k], label_filter_)],
                           label_validation_)

\* EnglishBenedict.parse, one line
EN_parse_stripped(line, label_validation_, label_filter_) ==
    IF line = <<>> THEN Line_Skip
    ELSE EN_parse_validated(EnglishBenedict_validate_text_string_format(line),
                            label_validation_, label_filter_)

\* the line handed on as it is in the file
EN_parse_line_unstripped(line, label_validation_, label_filter_) ==
    EN_parse_stripped(line, label_validation_, label_filter_)

EN_parse_line(line, label_validation_, label_filter_) ==
    EN_parse_stripped(Strip(line), label_validation_, label_filter_)

\* FinnishBenedict.parse, one line: the loop over the tokens
RECURSIVE FI_parse_tokens(_, _, _, _, _)
FI_parse_token(v, index, tmp_usas_tags, label_validation_, label_filter_, usas_tag) ==
    IF label_not_valid(usas_tag, label_validation_)
    THEN Line_Raise(ValueError)
    ELSE FI_parse_tokens(v, index + 1, Append(tmp_usas_tags, usas_tag), label_validation_,
                         label_filter_)

FI_parse_tokens(v, index, tmp_usas_tags, label_validation_, label_filter_) ==
    IF index > Len(v.tokens)
    THEN EvaluationTexts(v.text, v.tokens, NoValue, NoValue, Some(tmp_usas_tags),
                         Some(v.mwe_indexes))
    ELSE IF token_is_a_tag(v.tokens[index])
    THEN Line_Raise(ValueError)
    ELSE FI_parse_token(v, index, tmp_usas_tags, label_validation_, label_filter_,
                        filtered(v.semantic_tags[index], label_filter_))

\* FinnishBenedict.parse, one line: the validated line given to the loop
FI_parse_validated(v, label_validation_, label_filter_) ==
    IF ~v.ok THEN Line_Raise(v.error)
    ELSE FI_parse_tokens(v, 1, <<>>, label_validation_, label_filter_)

\* FinnishBenedict.parse, one line
FI_parse_stripped(line, label_validation_, label_filter_) ==
    IF line = <<>> THEN Line_Skip
    ELSE FI_parse_validated(FinnishBenedict_validate_text_string_format(line),
                            label_validation_, label_filter_)

FI_parse_line(line, label_validation_, label_filter_) ==
    FI_parse_stripped(Strip(line), label_validation_, label_filter_)

\* the EvaluationDataset returned
EvaluationDataset(name, text_level, labels_removed, texts) ==
    [name |-> name, text_level |-> text_level, labels_removed |-> labels_removed,
     texts |-> texts]

\* longest file, in lines
MaxLines == 2

\* longest file, in lines, built from all of FileLines
MaxEdgeLines == 1

\* a_F2
P_plain == <<"a", "_", "F", "2">>

\* a_F2/O2 b_Z1, separated by a form feed, with a leading no-break space and
\* a trailing tab
P_two == <<"U+00A0", "a", "_", "F", "2", "/", "O", "2", "\f", "b", "_", "Z", "1", "\t">>

\* a line of whitespace
P_blank == <<"\t">>

\* F2_Z1: the token text is a tag
P_token_tag == <<"F", "2", "_", "Z", "1">>

\* a_PUNCT b_F2
P_punct == <<"a", "_", "P", "U", "N", "C", "T", " ", "b", "_", "F", "2">>

\* a_F2[i1.2.1 b_Z1[i1.2.2, the first id written as the Arabic-Indic digit one
P_marked == <<"a", "_", "F", "2", "[", "i", "U+0661", ".", "2", ".", "1", " ",
              "b", "_", "Z", "1", "[", "i", "1", ".", "2", ".", "2">>

\* a_F2_i b_F2/O2_i
P_flagged == <<"a", "_", "F", "2", "_", "i", " ", "b", "_", "F", "2", "/", "O", "2", "_", "i">>

\* a_Z1[i1.2.1: the marker declares two units
P_short_mwe == <<"a", "_", "Z", "1", "[", "i", "1", ".", "2", ".", "1">>

\* a
P_bad == <<"a">>

\* a_: no tag
P_no_tag == <<"a", "_">>

\* F2/x_Z1: the token text starts with a code, its second piece does not
P_token_slash == <<"F", "2", "/", "x", "_", "Z", "1">>

\* the lines that files of up to MaxLines lines are built from
CoreLines == {P_plain, P_two, P_blank, P_token_tag, P_punct, P_marked, P_flagged}

FileLines == CoreLines \cup {P_short_mwe, P_bad, P_no_tag, P_token_slash}

\* the files given to the two parse methods
Files == SeqsUpTo(CoreLines, MaxLines) \cup SeqsUpTo(FileLines, MaxEdgeLines)

L_F2 == <<"F", "2">>

L_O2 == <<"O", "2">>

L_Z1 == <<"Z", "1">>

L_F2_O2 == <<"F", "2", "/", "O", "2">>

\* the values given for label_filter
LabelFilters == {NoValue, Some({}), Some({L_F2}), Some({L_F2_O2}), Some({L_F2, L_Z1})}

\* the values given for label_validation
LabelValidations == {NoValue, Some({}), Some({L_F2}), Some({L_F2, L_O2}), Some({L_F2, L_O2, L_Z1})}

ParseInit ==
    /\ dataset \in Files
    /\ label_validation \in LabelValidations
    /\ label_filter \in LabelFilters
    /\ parse_pc \in {"en_start", "fi_start"}
    /\ line_index = 0
    /\ evaluation_texts = <<>>
    /\ ret_parse = Parse_Raise(NotCalled)
    /\ LineIdle
    /\ TagIdle
    /\ CorpusIdle
    /\ TextsIdle

\* EnglishBenedict.parse: the file is opened
EN_parse_Call ==
    /\ parse_pc = "en_start"
    /\ evaluation_texts' = <<>>
    /\ line_index' = 0
    /\ parse_pc' = "en_lines"
    /\ UNCHANGED <<dataset, label_validation, label_filter, ret_parse, line_vars, tag_vars, corpus_vars, texts_vars>>

\* EnglishBenedict.parse: one line of the file
EN_parse_Line ==
    /\ parse_pc = "en_lines"
    /\ line_index < Len(dataset)
    /\ LET r == EN_parse_line(dataset[line_index + 1], label_validation, label_filter)
       IN  IF r.ok
           THEN /\ evaluation_texts' = IF r.skipped THEN evaluation_texts
                                       ELSE Append(evaluation_texts, r.evaluation_text[1])
                /\ line_index' = line_index + 1
                /\ UNCHANGED <<parse_pc, ret_parse>>
           ELSE /\ ret_parse' = Parse_Raise(r.error)
                /\ parse_pc' = "en_done"
                /\ UNCHANGED <<evaluation_texts, line_index>>
    /\ UNCHANGED <<dataset, label_validation, label_filter, line_vars, tag_vars, corpus_vars, texts_vars>>

\* EnglishBenedict.parse: return EvaluationDataset(...)
EN_parse_Return ==
    /\ parse_pc = "en_lines"
    /\ line_index = Len(dataset)
    /\ ret_parse' = Parse_Return(EvaluationDataset("Benedict English", "sentence",
                                                   label_filter, evaluation_texts))
    /\ parse_pc' = "en_done"
    /\ UNCHANGED <<dataset, label_validation, label_filter, line_index, evaluation_texts,
                   line_vars, tag_vars, corpus_vars, texts_vars>>

\* FinnishBenedict.parse: the file is opened
FI_parse_Call ==
    /\ parse_pc = "fi_start"
    /\ evaluation_texts' = <<>>
    /\ line_index' = 0
    /\ parse_pc' = "fi_lines"
    /\ UNCHANGED <<dataset, label_validation, label_filter, ret_parse, line_vars, tag_vars, corpus_vars, texts_vars>>

\* FinnishBenedict.parse: one line of the file
FI_parse_Line ==
    /\ parse_pc = "fi_lines"
    /\ line_index < Len(dataset)
    /\ LET r == FI_parse_line(dataset[line_index + 1], label_validation, label_filter)
       IN  IF r.ok
           THEN /\ evaluation_texts' = IF r.skipped THEN evaluation_texts
                                       ELSE Append(evaluation_texts, r.evaluation_text[1])
                /\ line_index' = line_index + 1
                /\ UNCHANGED <<parse_pc, ret_parse>>
           ELSE /\ ret_parse' = Parse_Raise(r.error)
                /\ parse_pc' = "fi_done"
                /\ UNCHANGED <<evaluation_texts, line_index>>
    /\ UNCHANGED <<dataset, label_validation, label_filter, line_vars, tag_vars, corpus_vars, texts_vars>>

\* FinnishBenedict.parse: return EvaluationDataset(...)
FI_parse_Return ==
    /\ parse_pc = "fi_lines"
    /\ line_index = Len(dataset)
    /\ ret_parse' = Parse_Return(EvaluationDataset("Benedict Finnish", "sentence",
                                                   label_filter, evaluation_texts))
    /\ parse_pc' = "fi_done"
    /\ UNCHANGED <<dataset, label_validation, label_filter, line_index, evaluation_texts,
                   line_vars, tag_vars, corpus_vars, texts_vars>>

ParseNext ==
    \/ EN_parse_Call \/ EN_parse_Line \/ EN_parse_Return
    \/ FI_parse_Call \/ FI_parse_Line \/ FI_parse_Return

ParseSpec == ParseInit /\ [][ParseNext]_vars

\* ------------------------------------------------------------------------
\* dataset.py: a call EvaluationTexts(...) on lists of any lengths
\* ------------------------------------------------------------------------

\* longest list given to EvaluationTexts(...)
MaxTokens == 2

\* lists of strings
StringLists == SeqsUpTo({<<"a">>}, MaxTokens)

\* lists of MWE sets
MweLists == SeqsUpTo({{}, {1}}, MaxTokens)

\* None, or one of the lists
Optional(lists) == {NoValue} \cup {Some(l) : l \in lists}

TextsInit ==
    /\ texts_args \in [text : {<<"a">>}, tokens : StringLists, lemmas : Optional(StringLists),
                        pos_tags : Optional(StringLists), semantic_tags : Optional(StringLists),
                        mwe_indexes : Optional(MweLists)]
    /\ texts_pc = "start"
    /\ ret_texts = Line_Raise(NotCalled)
    /\ LineIdle
    /\ TagIdle
    /\ ParseIdle
    /\ CorpusIdle

\* EvaluationTexts(text=..., tokens=..., lemmas=..., pos_tags=..., semantic_tags=...,
\* mwe_indexes=...): the fields are set and check_lists_match runs
EvaluationTexts_Call ==
    /\ texts_pc = "start"
    /\ ret_texts' = EvaluationTexts(texts_args.text, texts_args.tokens, texts_args.lemmas,
                                    texts_args.pos_tags, texts_args.semantic_tags,
                                    texts_args.mwe_indexes)
    /\ texts_pc' = "done"
    /\ UNCHANGED <<texts_args, line_vars, tag_vars, parse_vars, corpus_vars>>

TextsNext == EvaluationTexts_Call

TextsSpec == TextsInit /\ [][TextsNext]_vars

\* ------------------------------------------------------------------------
\* parsers/torch.py and parsers/corcencc.py: the two parse methods, one row or
\* one line of the file per step
\* ------------------------------------------------------------------------

KeyError == "KeyError"

\* a character outside ASCII is written by its code point: the fullwidth
\* semicolon
FullwidthSemicolon == "U+FF1B"

UpperCase == <<"A", "B", "C", "D", "E", "F", "G", "H", "I", "J", "K", "L", "M",
               "N", "O", "P", "Q", "R", "S", "T", "U", "V", "W", "X", "Y", "Z">>

LowerCase == <<"a", "b", "c", "d", "e", "f", "g", "h", "i", "j", "k", "l", "m",
               "n", "o", "p", "q", "r", "s", "t", "u", "v", "w", "x", "y", "z">>

\* str.lower on the ASCII letters; the lower case of every other character
\* holds a character that no key of string_to_bool holds
lower(s) ==
    [k \in 1..Len(s) |->
        IF s[k] \in Upper
        THEN LowerCase[CHOOSE i \in 1..Len(UpperCase) : UpperCase[i] = s[k]]
        ELSE s[k]]

\* the outcome of the validation of one label: the label kept, or the exception
Label_Raise(e) == [ok |-> FALSE, error |-> e, value |-> <<>>]

Label_Return(label) == [ok |-> TRUE, error |-> "", value |-> label]

\* the outcome of one row or one token entry: the token and its label, or the
\* exception
Row_Raise(e) ==
    [ok |-> FALSE, error |-> e, token |-> <<>>, label |-> <<>>, is_sentence_break |-> FALSE]

Row_Return(token, label, is_sentence_break) ==
    [ok |-> TRUE, error |-> "", token |-> token, label |-> label,
     is_sentence_break |-> is_sentence_break]

\* validate_label, the loop over label_group.tags and the label filter (the
\* same statements are in validate_first_label of torch.py)
validate_label_tags(tags, label_validation_, label_filter_) ==
    IF label_validation_ # NoValue
          /\ \E k \in 1..Len(tags) :
                tags[k].tag # PUNCT /\ tags[k].tag \notin label_validation_[1]
    THEN Label_Raise(ValueError)
    ELSE Label_Return(filtered(JoinTags(tags), label_filter_))

\* validate_label, after parse_usas_token_group: one label group is expected
validate_label_groups(label_groups, label_validation_, label_filter_) ==
    IF ~label_groups.ok THEN Label_Raise(label_groups.error)
    ELSE IF Len(label_groups.value) # 1 THEN Label_Raise(ValueError)
    ELSE validate_label_tags(label_groups.value[1], label_validation_, label_filter_)

\* CorcenccParser.parse: validate_label
validate_label(label, label_validation_, label_filter_) ==
    validate_label_groups(parse_usas_token_group(label), label_validation_, label_filter_)

\* TorchParser.parse: validate_first_label
validate_first_label(labels, label_validation_, label_filter_) ==
    IF Len(labels) = 0 THEN Label_Raise(ValueError)
    ELSE validate_label(labels[1], label_validation_, label_filter_)

\* the labels stripped, the empty ones dropped
cleaned_labels(labels) ==
    SelectSeq([k \in 1..Len(labels) |-> Strip(labels[k])], LAMBDA label : label # <<>>)

\* TorchParser.parse: label_string_to_labels
label_string_to_labels(label_string) ==
    cleaned_labels(IF Contains(label_string, FullwidthSemicolon)
                   THEN SplitOn(label_string, FullwidthSemicolon)
                   ELSE IF Contains(label_string, ",")
                   THEN SplitOn(label_string, ",")
                   ELSE Split(label_string))

\* TorchParser.parse: validate_token, TRUE when it raises
Torch_validate_token(token) == token = <<>> \/ token_is_a_tag(token)

\* CorcenccParser.parse: validate_token, TRUE when it raises
CC_validate_token(token) ==
    token = <<>> \/ (token # <<"S", "4", "C">> /\ token_is_a_tag(token))

quantifier_row_indexes ==
    {23, 53, 88, 92, 111, 148, 165, 191, 252, 285, 321, 389, 535, 559, 620, 680, 791, 820, 834, 885, 914, 941, 1026, 1036, 1049, 1102, 1109, 1113, 1117, 1125, 1129, 1136, 1162, 1174, 1199}

\* the rows whose label is not validated: (row_index, corrected_usas_string)
skip_validation_rows ==
    {<<78, <<"A", "1">>>>, <<663, <<>>>>, <<1457, <<"E", "4">>>>, <<1705, <<"N", "9", "9">>>>,
     <<1706, <<"N", "9", "9">>>>, <<1768, <<"N", "9", "9">>>>}

expected_field_names == {"Token", "Corrected-USAS", "sentence-break"}

\* the keys of string_to_bool
string_to_bool == {<<"t", "r", "u", "e">>, <<"f", "a", "l", "s", "e">>}

\* TorchParser.parse, one row: the sentence break is read after the token and
\* the label are appended
Torch_row_break(token, label, sentence_break) ==
    IF sentence_break \notin string_to_bool THEN Row_Raise(KeyError)
    ELSE Row_Return(token, label, sentence_break = <<"t", "r", "u", "e">>)

\* TorchParser.parse, one row: the label outcome, then validate_token
Torch_row_token(token, label, sentence_break) ==
    IF ~label.ok THEN Row_Raise(ValueError)
    ELSE IF Torch_validate_token(token) THEN Row_Raise(ValueError)
    ELSE Torch_row_break(token, label.value, sentence_break)

\* TorchParser.parse, one row: the label, validated unless the row is skipped
Torch_row_label(row_index, corrected_usas_string, label_validation_, label_filter_) ==
    IF <<row_index, corrected_usas_string>> \in skip_validation_rows
    THEN Label_Return(<<>>)
    ELSE validate_first_label(label_string_to_labels(corrected_usas_string),
                              label_validation_, label_filter_)

\* TorchParser.parse, one row: an empty corrected label takes a predicted PUNCT
Torch_predicted(corrected_usas_string, dataset_row, field_names) ==
    IF corrected_usas_string = <<>>
          /\ "Predicted-USAS" \in field_names
          /\ Strip(dataset_row.Predicted_USAS) = PUNCT
    THEN PUNCT
    ELSE corrected_usas_string

\* TorchParser.parse, one row: the label N of a quantifier row is N5
Torch_quantifier(corrected_usas_string, row_index) ==
    IF row_index \in quantifier_row_indexes /\ corrected_usas_string = <<"N">>
    THEN <<"N", "5">>
    ELSE corrected_usas_string

\* TorchParser.parse, one row of the CSV file
Torch_row(dataset_row, row_index, field_names, label_validation_, label_filter_) ==
    Torch_row_token(Strip(dataset_row.Token),
                    Torch_row_label(row_index,
                                    Torch_predicted(Torch_quantifier(Strip(dataset_row.Corrected_USAS),
                                                                     row_index),
                                                    dataset_row, field_names),
                                    label_validation_, label_filter_),
                    lower(Strip(dataset_row.sentence_break)))

\* the sentence closed before the row that breaks it is included
Sentence_before_row(tokens, semantic_tags) ==
    EvaluationTexts(Join(SubSeq(tokens, 1, Len(tokens) - 1), <<" ">>),
                    SubSeq(tokens, 1, Len(tokens) - 1), NoValue, NoValue,
                    Some(SubSeq(semantic_tags, 1, Len(semantic_tags) - 1)),
                    Some([k \in 1..(Len(tokens) - 1) |-> {}]))

\* the EvaluationTexts of a sentence without MWEs
Sentence(tokens, semantic_tags) ==
    EvaluationTexts(Join(tokens, <<" ">>), tokens, NoValue, NoValue, Some(semantic_tags),
                    Some([k \in 1..Len(tokens) |-> {}]))

\* CorcenccParser.parse: the labels replaced,
\* (usas_label, line_index, token_index, token, the label taken instead)
corrected_usas_labels ==
    {<<<<"I", "3">>, 3, 10, <<"g", "w", "e", "i", "t", "h", "i", "o">>, <<"I", "3", ".", "1">>>>,
     <<<<"I", "3">>, 18, 17, <<"w", "a", "i", "t", "h">>, <<"I", "3", ".", "1">>>>,
     <<<<"I", "3">>, 37, 16, <<"g", "w", "e", "i", "t", "h", "i", "o">>, <<"I", "3", ".", "1">>>>,
     <<<<"I", "3">>, 38, 18, <<"g", "w", "a", "i", "t", "h">>, <<"I", "3", ".", "1">>>>,
     <<<<"I", "3">>, 57, 5, <<"g", "w", "a", "i", "t", "h">>, <<"I", "3", ".", "1">>>>,
     <<<<"I", "3">>, 62, 25, <<"s", "w", "y", "d", "d", "i">>, <<"I", "3", ".", "1">>>>,
     <<<<"I", "3">>, 101, 40, <<"s", "w", "y", "d", "d", "i">>, <<"I", "3", ".", "1">>>>,
     <<<<"I", "3">>, 133, 12, <<"w", "e", "i", "t", "h", "i", "o">>, <<"I", "3", ".", "1">>>>,
     <<<<"I", "3">>, 225, 7, <<"w", "a", "i", "t", "h">>, <<"I", "3", ".", "1">>>>,
     <<<<"I", "3">>, 227, 8, <<"w", "a", "i", "t", "h">>, <<"I", "3", ".", "1">>>>,
     <<<<"I", "3">>, 259, 21, <<"d", "d", "y", "l", "e", "t", "s", "w", "y", "d", "d", "a", "u">>, <<"I", "3", ".", "1">>>>,
     <<<<"I", "3">>, 286, 24, <<"g", "w", "a", "i", "t", "h">>, <<"I", "3", ".", "1">>>>,
     <<<<"I", "3">>, 295, 4, <<"w", "a", "i", "t", "h">>, <<"I", "3", ".", "1">>>>,
     <<<<"I", "3">>, 335, 23, <<"w", "a", "i", "t", "h">>, <<"I", "3", ".", "1">>>>,
     <<<<"I", "3">>, 336, 0, <<"G", "w", "a", "i", "t", "h">>, <<"I", "3", ".", "1">>>>,
     <<<<"I", "3">>, 337, 2, <<"g", "w", "a", "i", "t", "h">>, <<"I", "3", ".", "1">>>>,
     <<<<"I", "3">>, 341, 20, <<"w", "a", "i", "t", "h">>, <<"I", "3", ".", "1">>>>,
     <<<<"I", "3">>, 351, 4, <<"g", "w", "a", "i", "t", "h">>, <<"I", "3", ".", "1">>>>,
     <<<<"I", "3">>, 397, 15, <<"w", "e", "i", "t", "h", "i", "o", "d", "d">>, <<"I", "3", ".", "1">>>>,
     <<<<"A", "1">>, 112, 15, <<"b", "r", "o", "s", "e", "s">>, <<"A", "1", ".", "1", ".", "1">>>>,
     <<<<"A", "1">>, 191, 15, <<"b", "r", "o", "s", "e", "s">>, <<"A", "1", ".", "1", ".", "1">>>>,
     <<<<"A", ".", "1", ".", "1", ".", "1">>, 578, 3, <<"p", "e", "i", "r", "i", "a", "n", "t">>, <<"A", "1", ".", "1", ".", "1">>>>,
     <<<<"A", ".", "1", ".", "5", ".", "1">>, 147, 9, <<"d", "d", "e", "f", "n", "y", "d", "d">>, <<"A", "1", ".", "5", ".", "1">>>>,
     <<<<"A", ".", "1", ".", "5", ".", "1">>, 159, 25, <<"d", "d", "e", "f", "n", "y", "d", "d", "i", "o">>, <<"A", "1", ".", "5", ".", "1">>>>,
     <<<<"T", ".", "1", ".", "1", ".", "1", "/", "S", "2", "/", "P", "1">>, 248, 20, <<"c", "y", "n", "-", "f", "y", "f", "y", "r", "w", "y", "r">>, <<"T", "1", ".", "1", ".", "1", "/", "S", "2", "/", "P", "1">>>>,
     <<<<"T", ".", "1", ".", "1", ".", "2">>, 326, 24, <<"e", "l", "e", "n", "i">>, <<"T", "1", ".", "1", ".", "2">>>>,
     <<<<"T", ".", "1", ".", "1", ".", "2">>, 329, 4, <<"e", "l", "e", "n", "i">>, <<"T", "1", ".", "1", ".", "2">>>>,
     <<<<"T", ".", "1", ".", "1", ".", "2">>, 333, 1, <<"e", "l", "e", "n", "i">>, <<"T", "1", ".", "1", ".", "2">>>>,
     <<<<"T", ".", "1", ".", "1", ".", "2">>, 391, 43, <<"g", "y", "f", "o", "e", "s">>, <<"T", "1", ".", "1", ".", "2">>>>,
     <<<<"A", "4">>, 345, 12, <<"n", "o", "d", "w", "e", "d", "d", "u">>, <<"A", "4", ".", "1">>>>,
     <<<<"Q", "2", "/", "T", ".", "1", ".", "1", ".", "1">>, 381, 0, <<"G", "e", "i", "r", "d", "a", "r", "d", "d", "i", "a", "d">>, <<"Q", "2", "/", "T", "1", ".", "1", ".", "1">>>>,
     <<<<"Q", "2", ".", "2", "/", "S", ".", "1", ".", "2", ".", "4">>, 511, 5, <<"c", "r", "o", "e", "s", "a", "w", "y", "d">>, <<"Q", "2", ".", "2", "/", "S", "1", ".", "2", ".", "4">>>>,
     <<<<"Q", ".", "2", "1">>, 512, 0, <<"D", "y", "w", "e", "d", "o", "d", "d">>, <<"Q", "2", ".", "1">>>>}

\* CorcenccParser.parse: the labels not validated,
\* (usas_label, line_index, token_index, token)
skipped_usas_labels ==
    {<<<<"I", "3">>, 19, 2, <<"s", "w", "y", "d", "d", "o", "g", "a", "e", "t", "h", "a", "u">>>>,
     <<<<"I", "3">>, 19, 20, <<"s", "w", "y", "d", "d", "o", "g", "a", "e", "t", "h", "a", "u">>>>,
     <<<<"I", "3">>, 26, 9, <<"r", "U+00F4", "l">>>>,
     <<<<"I", "3">>, 67, 37, <<"g", "w", "e", "i", "t", "h", "l", "e">>>>,
     <<<<"I", "3">>, 96, 1, <<"r", "U+00F4", "l">>>>,
     <<<<"I", "3">>, 270, 7, <<"s", "w", "y", "d", "d", "o", "g", "a", "e", "t", "h">>>>,
     <<<<"I", "3">>, 295, 9, <<"y", "r", "f", "a">>>>,
     <<<<"I", "3">>, 295, 17, <<"g", "w", "e", "i", "t", "h", "i", "o", "d", "d">>>>,
     <<<<"I", "3">>, 304, 18, <<"g", "y", "r", "f", "a">>>>,
     <<<<"I", "3">>, 460, 2, <<"g", "y", "r", "f", "a">>>>,
     <<<<"I", "3", "/", "S", "7">>, 74, 3, <<"d", "d", "y", "l", "e", "t", "s", "w", "y", "d", "d">>>>,
     <<<<"I", "3", "/", "S", "7">>, 21, 15, <<"d", "d", "y", "l", "e", "t", "s", "w", "y", "d", "d">>>>,
     <<<<"N", "5", ".", "1", "/", "I", "3">>, 23, 8, <<"a", "d", "r", "a", "n">>>>,
     <<<<"N", "5", ".", "1", "/", "I", "3">>, 27, 15, <<"a", "d", "r", "a", "n">>>>,
     <<<<"N", "5", ".", "1", "/", "I", "3">>, 35, 2, <<"a", "d", "r", "a", "n">>>>,
     <<<<"N", "5", ".", "1", "/", "I", "3">>, 40, 7, <<"a", "d", "r", "a", "n">>>>,
     <<<<"N", "5", ".", "1", "/", "I", "3">>, 43, 8, <<"a", "d", "r", "a", "n">>>>,
     <<<<"N", "5", ".", "1", "/", "I", "3">>, 484, 8, <<"A", "d", "r", "a", "n">>>>,
     <<<<"N", "5", ".", "1", "/", "I", "3">>, 491, 8, <<"A", "d", "r", "a", "n">>>>,
     <<<<"!", "E", "R", "R">>, 23, 37, <<"w", "e", "l", "l", "i", "a", "n", "n", "a", "u">>>>,
     <<<<"!", "E", "R", "R">>, 29, 16, <<"g", "w", "e", "l", "l", "i", "a", "n", "n", "a", "u">>>>,
     <<<<"!", "E", "R", "R">>, 63, 18, <<"g", "w", "e", "l", "l", "i", "a", "n", "n", "a", "u">>>>,
     <<<<"!", "E", "R", "R">>, 486, 29, <<"N", "e", "w", "y", "d", "d", "i", "o", "n">>>>,
     <<<<"A", "1", "1">>, 46, 26, <<"a", "l", "l", "w", "e", "d", "d", "o", "l">>>>,
     <<<<"A", "1", "1">>, 80, 8, <<"h", "o", "l", "l", "b", "w", "y", "s", "i", "g">>>>,
     <<<<"A", "1", "1">>, 131, 5, <<"h", "o", "l", "l", "b", "w", "y", "s", "i", "g">>>>,
     <<<<"A", "1", "1">>, 195, 15, <<"b", "r", "i", "f">>>>,
     <<<<"A", "1", "1">>, 196, 13, <<"g", "w", "e", "r", "t", "h", "f", "a", "w", "r">>>>,
     <<<<"A", "1", "1">>, 406, 26, <<"e", "n", "w", "o", "c", "a", "f">>>>,
     <<<<"A", "1", "1">>, 434, 29, <<"s", "t", "a", "t", "w", "s">>>>,
     <<<<"A", "1", "1">>, 448, 24, <<"s", "t", "a", "t", "w", "s">>>>,
     <<<<"A", "1", "1">>, 453, 15, <<"a", "l", "l", "w", "e", "d", "d", "o", "l">>>>,
     <<<<"A", "1", "1">>, 470, 25, <<"h", "o", "l", "l", "b", "w", "y", "s", "i", "g">>>>,
     <<<<"A", "1", "1">>, 476, 10, <<"b", "e", "n", "n", "a", "f">>>>,
     <<<<"A", "1", "1">>, 484, 4, <<"b", "e", "n", "n", "a", "f">>>>,
     <<<<"A", "1", "1">>, 502, 10, <<"s", "e", "i", "l", "i", "e", "d", "i", "g">>>>,
     <<<<"I", "3", "/", "S", "2", "m", "f">>, 86, 15, <<"g", "w", "e", "i", "t", "h", "r", "e", "d", "w", "y", "r">>>>,
     <<<<"I", "3", "/", "S", "7", ".", "1">>, 486, 6, <<"d", "d", "y", "l", "e", "t", "s", "w", "y", "d", "d">>>>,
     <<<<"S", "7", "/", "X", "6">>, 94, 4, <<"b", "e", "n", "o", "d", "i", "r">>>>,
     <<<<"A", "1", "1", "/", "A", "1", "0">>, 104, 14, <<"s", "w", "y", "d", "d", "o", "g", "o", "l">>>>,
     <<<<"A", "1", "1", "/", "A", "1", "0">>, 161, 17, <<"s", "w", "y", "d", "d", "o", "g", "o", "l">>>>,
     <<<<"X", "5", "-">>, 115, 17, <<"f", "r", "a", "s", "a", "m", "c", "a", "n", "u">>>>,
     <<<<"Q", "1", "/", "Y", "2">>, 137, 25, <<"n", "e", "g", "e", "s", "e", "u", "o", "n">>>>,
     <<<<"A", "4">>, 151, 3, <<"m", "a", "t", "h">>>>,
     <<<<"A", "4">>, 217, 4, <<"t", "h", "e", "m", "a">>>>,
     <<<<"A", "4">>, 223, 29, <<"T", "h", "e", "m", "U+00E2", "u">>>>,
     <<<<"A", "4">>, 223, 45, <<"t", "h", "e", "m", "U+00E2", "u">>>>,
     <<<<"A", "4">>, 273, 3, <<"t", "e", "i", "p", "o", "l", "e", "g">>>>,
     <<<<"A", "4">>, 366, 19, <<"f", "a", "t", "h">>>>,
     <<<<"S", "7", ".", "1", "+", "/", "S", ".", "1", "F">>, 394, 16, <<"f", "r", "e", "n", "h", "i", "n", "i", "a", "e", "t", "h">>>>,
     <<<<"S", "7", ".", "1", "+", "/", "S", ".", "1", "F">>, 437, 9, <<"f", "r", "e", "n", "h", "i", "n", "e", "s">>>>,
     <<<<"A", "1">>, 83, 18, <<"g", "y", "f", "f", "r", "e", "d", "i", "n", "o", "l">>>>,
     <<<<"A", "1">>, 253, 17, <<"c", "y", "f", "f", "r", "e", "d", "i", "n", "o", "l">>>>,
     <<<<"A", "1">>, 514, 19, <<"g", "y", "f", "f", "r", "e", "d", "i", "n", "o", "l">>>>,
     <<<<"A", "1", "1", "/", "A", "4", ".", "2", "/", "S", "7", ".", "1">>, 237, 22, <<"b", "r", "i", "f">>>>,
     <<<<"A", "1", "1", "/", "A", "4", ".", "2", "/", "S", "7", ".", "1">>, 242, 8, <<"b", "r", "i", "f">>>>,
     <<<<"A", "4", ".", "2", "/", "A", "1", "1">>, 248, 9, <<"a", "r", "b", "e", "n", "n", "i", "g">>>>,
     <<<<"A", "4", ".", "2", "/", "A", "1", "1">>, 264, 21, <<"a", "r", "b", "e", "n", "n", "i", "g">>>>,
     <<<<"A", "4", ".", "2", "/", "A", "1", "1">>, 282, 5, <<"A", "r", "b", "e", "n", "n", "i", "g">>>>,
     <<<<"A", "4", ".", "2", "/", "A", "1", "1">>, 299, 3, <<"a", "r", "b", "e", "n", "n", "i", "g">>>>,
     <<<<"A", "1", "1", "/", "S", "7", ".", "1">>, 252, 5, <<"p", "r", "i", "f">>>>,
     <<<<"A", "1", "1", "/", "S", "7", ".", "1">>, 253, 20, <<"p", "r", "i", "f">>>>,
     <<<<"A", "1", "1", "/", "S", "7", ".", "1">>, 281, 22, <<"s", "w", "y", "d", "d", "o", "g", "o", "l">>>>,
     <<<<"A", "1", "1", "/", "S", "7", ".", "1">>, 311, 12, <<"p", "r", "i", "f">>>>,
     <<<<"A", "1", "1", "/", "S", "7", ".", "1">>, 311, 22, <<"p", "r", "i", "f">>>>,
     <<<<"T", ".", "1", "3">>, 255, 14, <<"h", "y", "d">>>>,
     <<<<"T", ".", "1", "3">>, 308, 8, <<"d", "a", "l">>>>,
     <<<<"N", ".", "3", "7">>, 263, 7, <<"i", "s", "a", "f">>>>,
     <<<<"S", "7", ".", "1", "/", "A", "1", "1", "/", "A", "1", "4">>, 270, 6, <<"p", "r", "i", "f">>>>,
     <<<<"A", "1", "4", "/", "A", "1", "1">>, 293, 22, <<"p", "r", "i", "f">>>>,
     <<<<"S", "2", "/", "I", "3", "/", "Q", "4">>, 301, 10, <<"g", "y", "f", "l", "w", "y", "n", "y", "d", "d">>>>,
     <<<<"A", "1", ".", "8", "/", "A", "1", "1">>, 309, 14, <<"e", "i", "c", "o", "n">>>>,
     <<<<"A", "1", "1", "/", "A", "2", ".", "1">>, 315, 35, <<"d", "r", "o", "b", "w", "y", "n", "t">>>>,
     <<<<"I", "3", "/", "S", "5">>, 334, 18, <<"g", "y", "d", "w", "e", "i", "t", "h", "i", "o">>>>,
     <<<<"E", "4", "-", "/", "S", "5", "-">>, 363, 9, <<"u", "n", "i", "g", "r", "w", "y", "d", "d">>>>,
     <<<<"E", "4", "-", "/", "S", "5", "-">>, 365, 28, <<"u", "n", "i", "g", "r", "w", "y", "d", "d">>>>,
     <<<<"A", "1", ".", "1", ".", "1", "/", "E", "4", "-">>, 415, 3, <<"p", "e", "n", "y", "d">>>>,
     <<<<"I", "3", "/", "W", "3">>, 420, 24, <<"c", "h", "w", "a", "r", "e", "l", "i">>>>,
     <<<<"E", "4", "-", "/", "I", "1", "-", "/", "G", "1", ".", "2", "-">>, 424, 8, <<"D", "i", "r", "w", "a", "s", "g", "i", "a", "d">>>>,
     <<<<"Q", "2", ".", "2", "/", "S", "7", ".", "1", "/", "A", "1", "1", "+">>, 444, 7, <<"s", "e", "r", "e", "m", "o", "n", "U+00EF", "o", "l">>>>,
     <<<<"S", "1", ".", "1", ".", "3", "/", "Q", ".", "2">>, 482, 19, <<"g", "y", "f", "a", "r", "f", "o", "d">>>>,
     <<<<"S", "1", ".", "1", ".", "3", "/", "Q", ".", "2">>, 514, 1, <<"c", "y", "f", "a", "r", "f", "o", "d">>>>,
     <<<<"Q", "2", "/", "X", "4">>, 495, 49, <<"s", "a", "i", "l">>>>,
     <<<<"A", "1", "0", "/", "A", "1", "1", "/", "Q", "2">>, 497, 23, <<"s", "w", "y", "d", "d", "o", "g", "o", "l">>>>,
     <<<<"A", "1", "0", "/", "A", "1", "1", "/", "Q", "2">>, 499, 5, <<"s", "w", "y", "d", "d", "o", "g", "o", "l">>>>,
     <<<<"H", "1", "/", "I", "3">>, 513, 8, <<"S", "w", "y", "d", "d", "f", "a">>>>,
     <<<<"H", "1", "/", "I", "3">>, 519, 4, <<"S", "w", "y", "d", "d", "f", "a">>>>}

\* CorcenccParser.parse, one token entry: validate_token after the label
CC_entry_token(token, label) ==
    IF ~label.ok THEN Row_Raise(ValueError)
    ELSE IF CC_validate_token(token) THEN Row_Raise(ValueError)
    ELSE Row_Return(token, label.value, FALSE)

\* CorcenccParser.parse, one token entry: the label, validated unless skipped
CC_entry_label(usas_label, line_index_, token_index_, token, label_validation_, label_filter_) ==
    CC_entry_token(token,
                   IF <<usas_label, line_index_, token_index_, token>> \in skipped_usas_labels
                   THEN Label_Return(<<>>)
                   ELSE validate_label(usas_label, label_validation_, label_filter_))

\* CorcenccParser.parse, one token entry: the label replaced by the first match
CC_entry_corrected(usas_label, line_index_, token_index_, token, label_validation_, label_filter_) ==
    CC_entry_label(IF \E c \in corrected_usas_labels :
                          <<c[1], c[2], c[3], c[4]>> = <<usas_label, line_index_, token_index_, token>>
                   THEN (CHOOSE c \in corrected_usas_labels :
                          <<c[1], c[2], c[3], c[4]>> = <<usas_label, line_index_, token_index_, token>>)[5]
                   ELSE usas_label,
                   line_index_, token_index_, token, label_validation_, label_filter_)

\* CorcenccParser.parse, one token entry: seven columns are expected
CC_entry(token_data, line_index_, token_index_, label_validation_, label_filter_) ==
    IF Len(token_data) # 7 THEN Row_Raise(ValueError)
    ELSE CC_entry_corrected(Strip(token_data[7]), line_index_, token_index_,
                            Strip(token_data[1]), label_validation_, label_filter_)

\* CorcenccParser.parse, one line: the loop over the token entries
RECURSIVE CC_entries(_, _, _, _, _, _, _)
CC_entry_append(entries, index, tokens, semantic_tags, line_index_, label_validation_, label_filter_, r) ==
    IF ~r.ok THEN Line_Raise(r.error)
    ELSE CC_entries(entries, index + 1, Append(tokens, r.token),
                    Append(semantic_tags, r.label), line_index_, label_validation_,
                    label_filter_)

CC_entries(entries, index, tokens, semantic_tags, line_index_, label_validation_, label_filter_) ==
    IF index > Len(entries) THEN Sentence(tokens, semantic_tags)
    ELSE CC_entry_append(entries, index, tokens, semantic_tags, line_index_,
                         label_validation_, label_filter_,
                         CC_entry(SplitOn(entries[index], "|"), line_index_, index - 1,
                                  label_validation_, label_filter_))

\* CorcenccParser.parse, one line
CC_stripped(line, line_index_, label_validation_, label_filter_) ==
    IF line = <<>> THEN Line_Skip
    ELSE CC_entries(Split(line), 1, <<>>, <<>>, line_index_, label_validation_, label_filter_)

CC_line(line, line_index_, label_validation_, label_filter_) ==
    CC_stripped(Strip(line), line_index_, label_validation_, label_filter_)

\* a row of the CSV file as csv.DictReader gives it; Predicted_USAS is read only
\* when the file has the field
Row(Token, Corrected_USAS, Predicted_USAS, sentence_break) ==
    [Token |-> Token, Corrected_USAS |-> Corrected_USAS, Predicted_USAS |-> Predicted_USAS,
     sentence_break |-> sentence_break]

\* a, Z1, not a sentence break
R_a == Row(<<"a">>, <<"Z", "1">>, <<"Z", "1">>, <<"f", "a", "l", "s", "e">>)

\* b, F2/O2, a sentence break written True
R_b == Row(<<"b">>, <<"F", "2", "/", "O", "2">>, <<>>, <<"T", "r", "u", "e">>)

\* c between a no-break space and a form feed, F2, not a sentence break
R_c == Row(<<"U+00A0", "c", "\f">>, <<"F", "2">>, <<>>, <<"f", "a", "l", "s", "e">>)

\* a full stop, PUNCT, a sentence break
R_dot == Row(<<".">>, <<"P", "U", "N", "C", "T">>, <<"P", "U", "N", "C", "T">>, <<" ", "t", "r", "u", "e">>)

\* no token
R_empty_token == Row(<<>>, <<"Z", "1">>, <<>>, <<"f", "a", "l", "s", "e">>)

\* the token is a tag
R_token_tag == Row(<<"F", "2">>, <<"Z", "1">>, <<>>, <<"f", "a", "l", "s", "e">>)

\* no corrected label, PUNCT predicted
R_predicted == Row(<<"-">>, <<>>, <<"P", "U", "N", "C", "T">>, <<"t", "r", "u", "e">>)

\* no corrected label, Z1 predicted
R_not_predicted == Row(<<"e">>, <<>>, <<"Z", "1">>, <<"t", "r", "u", "e">>)

\* the label is not a tag
R_bad_label == Row(<<"e">>, <<"x", "x">>, <<>>, <<"f", "a", "l", "s", "e">>)

\* the sentence break is neither true nor false
R_bad_break == Row(<<"e">>, <<"Z", "1">>, <<>>, <<"y", "e", "s">>)

\* the label carries markers
R_markers == Row(<<"e">>, <<"A", "1", "+">>, <<>>, <<"f", "a", "l", "s", "e">>)

\* two labels separated by a comma
R_comma == Row(<<"e">>, <<"Z", "1", ",", " ", "x", "x">>, <<>>, <<"t", "r", "u", "e">>)

\* two labels separated by an ideographic space
R_space == Row(<<"e">>, <<"F", "2", "U+3000", "O", "2">>, <<>>, <<"f", "a", "l", "s", "e">>)

\* labels separated by a fullwidth semicolon, the first of two codes
R_fullwidth == Row(<<"e">>, <<"F", "2", "/", "O", "2", FullwidthSemicolon, "x", "x">>, <<>>, <<"f", "a", "l", "s", "e">>)

\* labels separated by a fullwidth semicolon, the first of two groups
R_fullwidth_groups == Row(<<"e">>, <<"F", "2", " ", "O", "2", FullwidthSemicolon, "Z", "1">>, <<>>, <<"f", "a", "l", "s", "e">>)

\* the label N outside the quantifier rows
R_N == Row(<<"e">>, <<"N">>, <<>>, <<"f", "a", "l", "s", "e">>)

CoreRows == {R_a, R_b, R_c, R_dot}

EdgeRows ==
    {R_empty_token, R_token_tag, R_predicted, R_not_predicted,
     R_bad_label, R_bad_break, R_markers, R_comma,
     R_space, R_fullwidth, R_fullwidth_groups, R_N}

\* longest CSV file of core rows, in rows
MaxRows == 3

\* most core rows before any other row
MaxRowsBefore == 1

\* the CSV files: core rows, or core rows and one other row after them
CsvFiles ==
    SeqsUpTo(CoreRows, MaxRows)
        \cup {Append(rows, r) : rows \in SeqsUpTo(CoreRows, MaxRowsBefore), r \in EdgeRows}

\* the field names of the CSV file: None for an empty file
CsvFieldNames ==
    {NoValue,
     Some({"Token", "Corrected-USAS"}),
     Some({"Token", "Corrected-USAS", "sentence-break"}),
     Some({"Token", "Lemma", "Corrected-USAS", "Predicted-USAS", "sentence-break"})}

\* a, Z1
K_plain == <<"a", "|", "l", "|", "p", "|", "t", "|", "e", "|", "b", "|", "Z", "1">>

\* a, F2/O2 and b, F2, separated by a form feed, with a leading no-break space
\* and a trailing tab
K_two == <<"U+00A0", "a", "|", "l", "|", "p", "|", "t", "|", "e", "|", "b", "|", "F",
           "2", "/", "O", "2", "\f", "b", "|", "l", "|", "p", "|", "t", "|", "e",
           "|", "b", "|", "F", "2", "\t">>

\* a line of whitespace
K_blank == <<" ">>

\* a full stop, PUNCT and c, Z1
K_punct == <<".", "|", "l", "|", "p", "|", "t", "|", "e", "|", "b", "|", "P", "U",
             "N", "C", "T", " ", "c", "|", "l", "|", "p", "|", "t", "|", "e", "|",
             "b", "|", "Z", "1">>

\* six columns
K_six == <<"a", "|", "l", "|", "p", "|", "t", "|", "e", "|", "Z", "1">>

\* the token is a tag
K_token_tag == <<"F", "2", "|", "l", "|", "p", "|", "t", "|", "e", "|", "b", "|", "Z",
                 "1">>

\* the token S4C
K_S4C == <<"S", "4", "C", "|", "l", "|", "p", "|", "t", "|", "e", "|", "b", "|",
           "F", "2">>

\* the label carries markers
K_markers == <<"a", "|", "l", "|", "p", "|", "t", "|", "e", "|", "b", "|", "A", "1",
               "+">>

\* the label is not a tag
K_bad_label == <<"a", "|", "l", "|", "p", "|", "t", "|", "e", "|", "b", "|", "x", "x">>

\* no label
K_no_label == <<"a", "|", "l", "|", "p", "|", "t", "|", "e", "|", "b", "|">>

\* no token
K_empty_token == <<"|", "l", "|", "p", "|", "t", "|", "e", "|", "b", "|", "Z", "1">>

CorcenccLines ==
    {K_plain, K_two, K_blank, K_punct, K_six,
     K_token_tag, K_S4C, K_markers, K_bad_label, K_no_label,
     K_empty_token}

CorpusInit ==
    /\ \/ /\ parse_pc = "torch_start"
          /\ dataset \in CsvFiles
          /\ csv_field_names \in CsvFieldNames
       \/ /\ parse_pc = "cc_start"
          /\ dataset \in SeqsUpTo(CorcenccLines, MaxLines)
          /\ csv_field_names = NoValue
    /\ label_validation \in LabelValidations
    /\ label_filter \in LabelFilters
    /\ line_index = 0
    /\ evaluation_texts = <<>>
    /\ sentence_tokens = <<>>
    /\ sentence_tags = <<>>
    /\ ret_parse = Parse_Raise(NotCalled)
    /\ LineIdle
    /\ TagIdle
    /\ TextsIdle

\* TorchParser.parse: the file is opened and its field names are checked
Torch_Call ==
    /\ parse_pc = "torch_start"
    /\ IF csv_field_names = NoValue
       THEN /\ ret_parse' = Parse_Raise(ValueError)
            /\ parse_pc' = "torch_done"
       ELSE IF csv_field_names[1] \cap expected_field_names # expected_field_names
       THEN /\ ret_parse' = Parse_Raise(ValueError)
            /\ parse_pc' = "torch_done"
       ELSE /\ parse_pc' = "torch_rows"
            /\ UNCHANGED ret_parse
    /\ evaluation_texts' = <<>>
    /\ sentence_tokens' = <<>>
    /\ sentence_tags' = <<>>
    /\ line_index' = 0
    /\ UNCHANGED <<dataset, label_validation, label_filter, csv_field_names, line_vars,
                   tag_vars, texts_vars>>

\* TorchParser.parse: one row of the file
Torch_Row ==
    /\ parse_pc = "torch_rows"
    /\ line_index < Len(dataset)
    /\ LET r == Torch_row(dataset[line_index + 1], line_index + 2, csv_field_names[1],
                          label_validation, label_filter)
           t == Sentence(Append(sentence_tokens, r.token), Append(sentence_tags, r.label))
       IN  IF ~r.ok
           THEN /\ ret_parse' = Parse_Raise(r.error)
                /\ parse_pc' = "torch_done"
                /\ UNCHANGED <<evaluation_texts, sentence_tokens, sentence_tags, line_index>>
           ELSE IF ~r.is_sentence_break
           THEN /\ sentence_tokens' = Append(sentence_tokens, r.token)
                /\ sentence_tags' = Append(sentence_tags, r.label)
                /\ line_index' = line_index + 1
                /\ UNCHANGED <<evaluation_texts, parse_pc, ret_parse>>
           ELSE IF ~t.ok
           THEN /\ ret_parse' = Parse_Raise(t.error)
                /\ parse_pc' = "torch_done"
                /\ UNCHANGED <<evaluation_texts, sentence_tokens, sentence_tags, line_index>>
           ELSE /\ evaluation_texts' = Append(evaluation_texts, t.evaluation_text[1])
                /\ sentence_tokens' = <<>>
                /\ sentence_tags' = <<>>
                /\ line_index' = line_index + 1
                /\ UNCHANGED <<parse_pc, ret_parse>>
    /\ UNCHANGED <<dataset, label_validation, label_filter, csv_field_names, line_vars,
                   tag_vars, texts_vars>>

\* TorchParser.parse: the rows left are a last sentence; return EvaluationDataset(...)
Torch_Return ==
    /\ parse_pc = "torch_rows"
    /\ line_index = Len(dataset)
    /\ LET t == Sentence(sentence_tokens, sentence_tags)
       IN  IF sentence_tokens = <<>>
           THEN /\ ret_parse' = Parse_Return(EvaluationDataset("Torch", "sentence", label_filter,
                                                               evaluation_texts))
                /\ UNCHANGED evaluation_texts
           ELSE IF ~t.ok
           THEN /\ ret_parse' = Parse_Raise(t.error)
                /\ UNCHANGED evaluation_texts
           ELSE /\ evaluation_texts' = Append(evaluation_texts, t.evaluation_text[1])
                /\ ret_parse' = Parse_Return(EvaluationDataset("Torch", "sentence", label_filter,
                                                               evaluation_texts'))
    /\ parse_pc' = "torch_done"
    /\ UNCHANGED <<dataset, label_validation, label_filter, line_index, csv_field_names,
                   sentence_tokens, sentence_tags, line_vars, tag_vars, texts_vars>>

\* CorcenccParser.parse: the file is opened
CC_Call ==
    /\ parse_pc = "cc_start"
    /\ evaluation_texts' = <<>>
    /\ line_index' = 0
    /\ parse_pc' = "cc_lines"
    /\ UNCHANGED <<dataset, label_validation, label_filter, ret_parse, corpus_vars, line_vars,
                   tag_vars, texts_vars>>

\* CorcenccParser.parse: one line of the file
CC_Line ==
    /\ parse_pc = "cc_lines"
    /\ line_index < Len(dataset)
    /\ LET r == CC_line(dataset[line_index + 1], line_index, label_validation, label_filter)
       IN  IF r.ok
           THEN /\ evaluation_texts' = IF r.skipped THEN evaluation_texts
                                       ELSE Append(evaluation_texts, r.evaluation_text[1])
                /\ line_index' = line_index + 1
                /\ UNCHANGED <<parse_pc, ret_parse>>
           ELSE /\ ret_parse' = Parse_Raise(r.error)
                /\ parse_pc' = "cc_done"
                /\ UNCHANGED <<evaluation_texts, line_index>>
    /\ UNCHANGED <<dataset, label_validation, label_filter, corpus_vars, line_vars, tag_vars,
                   texts_vars>>

\* CorcenccParser.parse: return EvaluationDataset(...)
CC_Return ==
    /\ parse_pc = "cc_lines"
    /\ line_index = Len(dataset)
    /\ ret_parse' = Parse_Return(EvaluationDataset("Corcencc", "sentence", label_filter,
                                                   evaluation_texts))
    /\ parse_pc' = "cc_done"
    /\ UNCHANGED <<dataset, label_validation, label_filter, line_index, evaluation_texts,
                   corpus_vars, line_vars, tag_vars, texts_vars>>

CorpusNext ==
    \/ Torch_Call \/ Torch_Row \/ Torch_Return
    \/ CC_Call \/ CC_Line \/ CC_Return

CorpusSpec == CorpusInit /\ [][CorpusNext]_vars

\* every construction of a text and every parser
DatasetInit == TextsInit \/ ParseInit \/ CorpusInit

DatasetNext == TextsNext \/ ParseNext \/ CorpusNext

DatasetSpec == DatasetInit /\ [][DatasetNext]_vars

\* ------------------------------------------------------------------------
\* What a line says, read off its characters (used to state the properties)
\* ------------------------------------------------------------------------

Min(S) == CHOOSE x \in S : \A y \in S : x <= y

\* the whitespace-separated units of the line
LineUnits == Split(text)

Underscores(u) == Cardinality({p \in 1..Len(u) : u[p] = "_"})

\* for a unit with underscores: the text before the first one, the text after it
BeforeUnderscore(u) == SubSeq(u, 1, Min({p \in 1..Len(u) : u[p] = "_"}) - 1)

AfterUnderscore(u) == SubSeq(u, Min({p \in 1..Len(u) : u[p] = "_"}) + 1, Len(u))

\* the positions of s at which a full marker [i<digits>.<digits>.<digits> starts
MarkersIn(s) == {p \in 1..Len(s) : mwe_pattern(s, p) > 0}

HasMarkerStart(s) == \E p \in 1..Len(s) : OccursAt(s, MweStart, p)

\* a unit with one underscore and at least one full marker after it
Marked(u) == Underscores(u) = 1 /\ MarkersIn(AfterUnderscore(u)) # {}

\* the raw id and the declared total of the first marker of a marked unit
RawId(u) == ToInt(mwe_groups(AfterUnderscore(u), Min(MarkersIn(AfterUnderscore(u))))[1])

Declared(u) == ToInt(mwe_groups(AfterUnderscore(u), Min(MarkersIn(AfterUnderscore(u))))[2])

\* a unit of the bracket format: one underscore, then no "[i" at all or one full marker
WellFormedUnit(u) ==
    /\ Underscores(u) = 1
    /\ \/ ~HasMarkerStart(AfterUnderscore(u))
       \/ Cardinality(MarkersIn(AfterUnderscore(u))) = 1

WellFormedLine == \A k \in 1..Len(LineUnits) : WellFormedUnit(LineUnits[k])

RawIds == {RawId(LineUnits[k]) : k \in {j \in 1..Len(LineUnits) : Marked(LineUnits[j])}}

\* the positions of the units that carry the raw id
UnitsOf(id) == {k \in 1..Len(LineUnits) : Marked(LineUnits[k]) /\ RawId(LineUnits[k]) = id}

\* the total declared for a raw id: the one of its first unit
DeclaredTotal(id) == Declared(LineUnits[Min(UnitsOf(id))])

CountsMatch == \A id \in RawIds : Cardinality(UnitsOf(id)) = DeclaredTotal(id)

\* ------------------------------------------------------------------------
\* Properties
\* ------------------------------------------------------------------------

\* C1: in an accepted line the j-th smallest raw MWE id is renumbered j, whatever
\* the order of first appearance: a unit of raw id a gets the number of raw ids
\* of the line that are <= a, so a < b gives a smaller output id, and the output
\* ids used are exactly 1..n for n distinct raw ids.
C1_SortedRemap ==
    (pc = "done" /\ ret_mwe.ok) =>
        /\ \A k \in 1..Len(LineUnits) :
              Marked(LineUnits[k]) =>
                  ret_mwe.value[k] = {Cardinality({j \in RawIds : j <= RawId(LineUnits[k])})}
        /\ \A k1, k2 \in 1..Len(LineUnits) :
              (Marked(LineUnits[k1]) /\ Marked(LineUnits[k2])
                  /\ RawId(LineUnits[k1]) < RawId(LineUnits[k2])) =>
                      \A x \in ret_mwe.value[k1] : \A y \in ret_mwe.value[k2] : x < y
        /\ UNION {ret_mwe.value[k] : k \in 1..Len(LineUnits)} = 1..Cardinality(RawIds)

\* an accepted line in which a larger raw id appears before a smaller one
C1_Witness ==
    /\ pc = "done" /\ ret_mwe.ok
    /\ \E k1, k2 \in 1..Len(LineUnits) :
          /\ k1 < k2 /\ Marked(LineUnits[k1]) /\ Marked(LineUnits[k2])
          /\ RawId(LineUnits[k1]) > RawId(LineUnits[k2])
          /\ ret_mwe.value[k1] = {2} /\ ret_mwe.value[k2] = {1}

\* C2: when, after the scan, some raw id has more or fewer units than the total
\* declared for it, get_mwe_indexes raises the malformed-input error and returns
\* no list.
C2_CountMismatchRaises ==
    (pc = "done" /\ WellFormedLine /\ ~CountsMatch) =>
        /\ ~ret_mwe.ok
        /\ ret_mwe.error = ValueError
        /\ ret_mwe.value = <<>>

\* a well-formed line with a marked unit whose partner carries no marker
C2_Witness ==
    /\ pc = "done" /\ WellFormedLine /\ ret_mwe.error = ValueError
    /\ \E id \in RawIds : Cardinality(UnitsOf(id)) < DeclaredTotal(id)
    /\ \E k \in 1..Len(LineUnits) : ~Marked(LineUnits[k])

\* C3: a well-formed line whose counts match is accepted also when the units of
\* a raw id are not adjacent; all units of one raw id get the same output id,
\* units of different raw ids get different ones, and unmarked units stay empty.
C3_Discontinuous ==
    (pc = "done" /\ WellFormedLine /\ CountsMatch) =>
        /\ ret_mwe.ok
        /\ \A k1, k2 \in 1..Len(LineUnits) :
              (Marked(LineUnits[k1]) /\ Marked(LineUnits[k2])) =>
                  /\ Cardinality(ret_mwe.value[k1]) = 1
                  /\ (RawId(LineUnits[k1]) = RawId(LineUnits[k2]))
                        <=> (ret_mwe.value[k1] = ret_mwe.value[k2])
        /\ \A k \in 1..Len(LineUnits) : ~Marked(LineUnits[k]) => ret_mwe.value[k] = {}

\* an accepted line with an unmarked unit between two units of one raw id
C3_Witness ==
    /\ pc = "done" /\ ret_mwe.ok /\ WellFormedLine
    /\ \E k1, k2, k3 \in 1..Len(LineUnits) :
          /\ k1 < k2 /\ k2 < k3
          /\ Marked(LineUnits[k1]) /\ Marked(LineUnits[k3]) /\ ~Marked(LineUnits[k2])
          /\ RawId(LineUnits[k1]) = RawId(LineUnits[k3])
          /\ ret_mwe.value[k1] = ret_mwe.value[k3] /\ ret_mwe.value[k2] = {}

\* C4: for a line accepted by the validator and by get_mwe_indexes the MWE list has
\* one entry per unit, in unit order, as long as the token list and the tag list;
\* the entry of a unit without marker is empty and the entry of a unit with a
\* marker is a singleton of an id in 1..n. An empty or whitespace-only line
\* gives the empty list.
C4_OneEntryPerUnit ==
    pc = "done" =>
        /\ Strip(text) = <<>> => (ret_mwe.ok /\ ret_mwe.value = <<>>)
        /\ (ret_en.ok /\ ret_mwe.ok) =>
              /\ Len(ret_mwe.value) = Len(LineUnits)
              /\ Len(ret_en.tokens) = Len(ret_mwe.value)
              /\ Len(ret_en.usas_tags) = Len(ret_mwe.value)
              /\ \A k \in 1..Len(LineUnits) :
                    /\ ret_en.tokens[k] = BeforeUnderscore(LineUnits[k])
                    /\ IF Marked(LineUnits[k])
                       THEN /\ Cardinality(ret_mwe.value[k]) = 1
                            /\ ret_mwe.value[k] \subseteq 1..Cardinality(RawIds)
                            /\ \A k2 \in 1..Len(LineUnits) :
                                  (Marked(LineUnits[k2]) /\ RawId(LineUnits[k2]) = RawId(LineUnits[k]))
                                      => ret_mwe.value[k2] = ret_mwe.value[k]
                       ELSE ret_mwe.value[k] = {}

\* a line accepted by both that has a unit with a marker and a unit without
C4_Witness ==
    /\ pc = "done" /\ ret_en.ok /\ ret_mwe.ok
    /\ Len(ret_mwe.value) = Len(ret_en.tokens)
    /\ \E k1, k2 \in 1..Len(LineUnits) :
          /\ Marked(LineUnits[k1]) /\ ret_mwe.value[k1] # {}
          /\ ~Marked(LineUnits[k2]) /\ ret_mwe.value[k2] = {}

\* a unit with one underscore and more than one full marker after it
SeveralMarkers(u) == Underscores(u) = 1 /\ Cardinality(MarkersIn(AfterUnderscore(u))) > 1

\* C5: get_mwe_indexes raises the malformed-input error for every line that has a
\* unit with more than one marker after its underscore, also when each id alone
\* would pass the count check.
C5_SeveralMarkersRaise ==
    (pc = "done" /\ \E k \in 1..Len(LineUnits) : SeveralMarkers(LineUnits[k])) =>
        /\ ~ret_mwe.ok
        /\ ret_mwe.error = ValueError

\* a one-unit line with two markers that each declare a total of one unit
C5_Witness ==
    /\ pc = "done" /\ ret_mwe.error = ValueError
    /\ Len(LineUnits) = 1
    /\ SeveralMarkers(LineUnits[1])
    /\ \A p \in MarkersIn(AfterUnderscore(LineUnits[1])) :
          ToInt(mwe_groups(AfterUnderscore(LineUnits[1]), p)[2]) = 1
    /\ \A p, q \in MarkersIn(AfterUnderscore(LineUnits[1])) :
          p # q => mwe_groups(AfterUnderscore(LineUnits[1]), p)[1]
                      # mwe_groups(AfterUnderscore(LineUnits[1]), q)[1]

\* a unit with one underscore whose part after it has "[i" but no full marker
MarkerStartOnly(u) ==
    /\ Underscores(u) = 1
    /\ HasMarkerStart(AfterUnderscore(u))
    /\ MarkersIn(AfterUnderscore(u)) = {}

\* C6 (the claim as stated): get_mwe_indexes raises for every unit whose part after
\* the underscore has the marker start "[i" but no full three-number marker; such
\* a unit is never taken for a unit without MWE.
C6_MarkerStartOnlyRaises ==
    (pc = "done" /\ \E k \in 1..Len(LineUnits) : MarkerStartOnly(LineUnits[k])) =>
        /\ ~ret_mwe.ok
        /\ ret_mwe.error = ValueError

\* the unit with its token text freed of "[": each "[" before the underscore
\* becomes "x" (units without exactly one underscore are left as they are)
PlainTokenText(u) ==
    IF Underscores(u) = 1
    THEN [p \in 1..Len(u) |-> IF p <= Len(BeforeUnderscore(u)) /\ u[p] = "[" THEN "x" ELSE u[p]]
    ELSE u

\* the line with every token text freed of "["
PlainTokenLine == Join([k \in 1..Len(LineUnits) |-> PlainTokenText(LineUnits[k])], <<" ">>)

\* some token text of the line holds "["
BracketInTokenText ==
    \E k \in 1..Len(LineUnits) :
        Underscores(LineUnits[k]) = 1 /\ Contains(BeforeUnderscore(LineUnits[k]), "[")

\* what validate_text_string_format gives apart from the token texts
TagsOutcome(r) == <<r.ok, r.error, r.usas_tags>>

\* C7: a token text that holds "[i" changes neither the outcome of get_mwe_indexes
\* nor the tags (or the error) of validate_text_string_format, compared with the
\* same line whose token texts hold no "[".
C7_TokenTextIgnored ==
    (pc = "done" /\ BracketInTokenText) =>
        /\ ret_mwe = get_mwe_indexes(PlainTokenLine)
        /\ TagsOutcome(ret_en) =
              TagsOutcome(EnglishBenedict_validate_text_string_format(PlainTokenLine))

\* an accepted line with a marked unit whose token text holds "[i"
C7_Witness ==
    /\ pc = "done" /\ ret_en.ok /\ ret_mwe.ok
    /\ \E k \in 1..Len(LineUnits) :
          /\ Marked(LineUnits[k])
          /\ HasMarkerStart(BeforeUnderscore(LineUnits[k]))
          /\ ret_mwe.value[k] = {1}
          /\ ret_en.tokens[k] # PlainTokenText(ret_en.tokens[k] \o <<"_">>)

\* the text of a unit after its last underscore
AfterLastUnderscore(u) ==
    SubSeq(u, Min({p \in 1..Len(u) + 1 : \A q \in p..Len(u) : u[q] # "_"}), Len(u))

\* a unit carrying the "_i" suffix of variant B
Flagged(u) == Underscores(u) = 2 /\ AfterLastUnderscore(u) = <<"i">>

\* the flagged units up to unit k that start a run of flagged units
RunStarts(k) ==
    {j \in 1..k : Flagged(LineUnits[j]) /\ (j = 1 \/ ~Flagged(LineUnits[j - 1]))}

\* the result of variant B for an accepted line: the k-th run of flagged units has id k
C8_RunIds ==
    (pc = "done" /\ ret_fi.ok) =>
        /\ \A k \in 1..Len(LineUnits) :
              ret_fi.mwe_indexes[k] =
                  IF Flagged(LineUnits[k]) THEN {Cardinality(RunStarts(k))} ELSE {}
        /\ \A k1, k2 \in 1..Len(LineUnits) :
              (k1 < k2 /\ Flagged(LineUnits[k1]) /\ Flagged(LineUnits[k2])) =>
                  ((ret_fi.mwe_indexes[k1] = ret_fi.mwe_indexes[k2])
                      <=> \A j \in k1..k2 : Flagged(LineUnits[j]))

\* the scan of variant B starts with the counter at 0 and the run flag false
C8_ScanStart ==
    (pc = "fi_loop" /\ token_index = 0) => (fi.mwe_index = 0 /\ ~fi.is_mwe)

\* one accepted unit of the scan of variant B
C8_ScanStep ==
    (pc = "fi_loop" /\ pc' = "fi_loop" /\ token_index' = token_index + 1) =>
        /\ fi'.mwe_index >= fi.mwe_index
        /\ Len(fi'.all_mwe_indexes) = token_index'
        /\ IF Flagged(units[token_index'])
           THEN /\ fi'.mwe_index = fi.mwe_index + (IF fi.is_mwe THEN 0 ELSE 1)
                /\ fi'.all_mwe_indexes[token_index'] = {fi'.mwe_index}
                /\ fi'.is_mwe
           ELSE /\ fi'.mwe_index = fi.mwe_index
                /\ fi'.all_mwe_indexes[token_index'] = {}
                /\ ~fi'.is_mwe

\* C8: variant B numbers MWEs by run. The scan starts with counter 0 and flag
\* false; a flagged unit increments the counter only if the flag was false,
\* emits the singleton of the counter and sets the flag; any other unit emits
\* the empty set and clears the flag; the counter never decreases. Hence the
\* k-th maximal run of flagged units gets id k and two flagged units share an
\* id iff every unit between them is flagged.
C8_NumberedByRun == [](C8_RunIds /\ C8_ScanStart) /\ [][C8_ScanStep]_vars

\* an accepted line with two runs of flagged units, numbered 1 and 2
C8_Witness ==
    /\ pc = "done" /\ ret_fi.ok
    /\ \E k1, k2 \in 1..Len(LineUnits) :
          /\ k1 < k2
          /\ ret_fi.mwe_indexes[k1] = {1}
          /\ ret_fi.mwe_indexes[k2] = {2}

\* the nine punctuation literals of variant B
PunctuationLiterals ==
    {<<"-">>, <<".">>, <<",">>, <<"!">>, <<":">>, <<"(">>, <<")">>, <<"\"">>, <<"?">>}

\* a unit that the classification of variant B refuses
Misclassified(u) ==
    \/ Underscores(u) = 0 /\ u \notin PunctuationLiterals
    \/ Underscores(u) = 2 /\ AfterLastUnderscore(u) # <<"i">>
    \/ Underscores(u) > 2
    \/ u[1] = "_"

\* C9: variant B classifies each unit by its number of underscores. A line with
\* a unit that has no underscore and is not one of the nine literals, or two
\* underscores and a last segment other than "i", or more than two underscores,
\* or an empty first segment, is refused with an error. In an accepted line a
\* unit without underscore is its own token with tag PUNCT and the empty MWE
\* set, a unit with one underscore has the empty MWE set, and a unit with two
\* underscores ends in "i".
C9_Classification ==
    pc = "done" =>
        /\ (\E k \in 1..Len(LineUnits) : Misclassified(LineUnits[k])) =>
              (~ret_fi.ok /\ ret_fi.error \in {ValueError, IndexError})
        /\ ret_fi.ok =>
              \A k \in 1..Len(LineUnits) :
                  CASE Underscores(LineUnits[k]) = 0 ->
                          /\ LineUnits[k] \in PunctuationLiterals
                          /\ ret_fi.tokens[k] = LineUnits[k]
                          /\ ret_fi.semantic_tags[k] = PUNCT
                          /\ ret_fi.mwe_indexes[k] = {}
                    [] Underscores(LineUnits[k]) = 1 ->
                          /\ ret_fi.tokens[k] = BeforeUnderscore(LineUnits[k])
                          /\ ret_fi.tokens[k] # <<>>
                          /\ ret_fi.mwe_indexes[k] = {}
                    [] Underscores(LineUnits[k]) = 2 ->
                          /\ ret_fi.tokens[k] = BeforeUnderscore(LineUnits[k])
                          /\ ret_fi.tokens[k] # <<>>
                          /\ AfterLastUnderscore(LineUnits[k]) = <<"i">>
                          /\ ret_fi.mwe_indexes[k] # {}
                    [] OTHER -> FALSE

\* an accepted line with a unit of each class: no, one and two underscores
C9_Witness ==
    /\ pc = "done" /\ ret_fi.ok
    /\ \E k0, k1, k2 \in 1..Len(LineUnits) :
          /\ Underscores(LineUnits[k0]) = 0 /\ ret_fi.semantic_tags[k0] = PUNCT
          /\ Underscores(LineUnits[k1]) = 1 /\ ret_fi.mwe_indexes[k1] = {}
          /\ Underscores(LineUnits[k2]) = 2 /\ ret_fi.mwe_indexes[k2] # {}

\* C10: variant A's validator raises the malformed-input error for every line
\* that is empty or whitespace-only or that has a unit with no underscore, with
\* two or more underscores, or with nothing before the underscore; and
\* get_mwe_indexes raises it for every line that has a unit without exactly one
\* underscore.
C10_UnderscoreChecks ==
    pc = "done" =>
        /\ (\/ Strip(text) = <<>>
            \/ \E k \in 1..Len(LineUnits) :
                  Underscores(LineUnits[k]) # 1 \/ LineUnits[k][1] = "_") =>
              (~ret_en.ok /\ ret_en.error = ValueError)
        /\ (\E k \in 1..Len(LineUnits) : Underscores(LineUnits[k]) # 1) =>
              (~ret_mwe.ok /\ ret_mwe.error = ValueError)

\* a line with a unit of two underscores and an acceptable tag, refused by both
C10_Witness ==
    /\ pc = "done"
    /\ ret_en.error = ValueError /\ ret_mwe.error = ValueError
    /\ \E k \in 1..Len(LineUnits) :
          /\ Underscores(LineUnits[k]) = 2
          /\ LineUnits[k][1] # "_"
          /\ \A j \in 1..Len(LineUnits) : j # k => WellFormedUnit(LineUnits[j])
          /\ parse_usas_token_group(SplitOn(LineUnits[k], "_")[2]).ok

Max(S) == CHOOSE x \in S : \A y \in S : x >= y

\* the tag-spec payload of a unit of variant A: the text after the underscore
\* and before the first "[i", or all of it when there is no "[i"
Payload(u) ==
    IF HasMarkerStart(AfterUnderscore(u))
    THEN SubSeq(AfterUnderscore(u), 1,
                Min({p \in 1..Len(AfterUnderscore(u)) : OccursAt(AfterUnderscore(u), MweStart, p)}) - 1)
    ELSE AfterUnderscore(u)

\* the five punctuation literals of variant A
PayloadLiterals == {<<"P", "U", "N", "C">>, <<"-">>, <<".">>, <<",">>, <<"!">>}

\* a unit of variant A with a token text and a punctuation literal for payload
LiteralUnit(u) == Underscores(u) = 1 /\ u[1] # "_" /\ Payload(u) \in PayloadLiterals

\* C11: in variant A a unit whose payload is one of PUNC - . , ! gets the tag
\* PUNCT, also when an MWE marker follows the payload; the tag grammar parser,
\* which refuses each of the five literals, is not consulted, so a line made of
\* such units is accepted.
C11_PunctuationLiterals ==
    pc = "done" =>
        /\ \A lit \in PayloadLiterals : ~parse_usas_token_group(lit).ok
        /\ ret_en.ok =>
              \A k \in 1..Len(LineUnits) :
                  LiteralUnit(LineUnits[k]) => ret_en.usas_tags[k] = PUNCT
        /\ (LineUnits # <<>> /\ \A k \in 1..Len(LineUnits) : LiteralUnit(LineUnits[k]))
              => ret_en.ok

\* an accepted line with a literal payload followed by a marker, tagged PUNCT
C11_Witness ==
    /\ pc = "done" /\ ret_en.ok
    /\ \E k \in 1..Len(LineUnits) :
          /\ LiteralUnit(LineUnits[k])
          /\ Marked(LineUnits[k])
          /\ ret_en.usas_tags[k] = PUNCT

\* a unit of variant A with one underscore and no tag-spec text after it
NoTagSpec(u) ==
    /\ Underscores(u) = 1
    /\ \/ AfterUnderscore(u) = <<>>
       \/ OccursAt(AfterUnderscore(u), MweStart, 1)

\* C12: the validator of variant A raises the malformed-input error for every
\* line with a unit whose part after the underscore is empty or starts with the
\* marker "[i".
C12_NoTagSpecRaises ==
    (pc = "done" /\ \E k \in 1..Len(LineUnits) : NoTagSpec(LineUnits[k])) =>
        (~ret_en.ok /\ ret_en.error = ValueError)

\* a line refused for its second unit, which has nothing after the underscore,
\* while its first unit is acceptable
C12_Witness ==
    /\ pc = "done" /\ ret_en.error = ValueError
    /\ Len(LineUnits) = 2
    /\ LiteralUnit(LineUnits[1])
    /\ NoTagSpec(LineUnits[2])
    /\ AfterUnderscore(LineUnits[2]) = <<>>

\* a taxonomy code: one uppercase letter, digits, then groups of "." and digits
IsCode(s) ==
    /\ Len(s) >= 2
    /\ s[1] \in Upper
    /\ s[2] \in Digits
    /\ s[Len(s)] \in Digits
    /\ \A p \in 2..Len(s) : s[p] \in Digits \cup {"."}
    /\ \A p \in 2..(Len(s) - 1) : s[p] = "." => s[p + 1] \in Digits

\* the lengths of the prefixes of s that are a taxonomy code or the literal PUNCT
CodePrefixes(s) ==
    {n \in 1..Len(s) : IsCode(SubSeq(s, 1, n)) \/ SubSeq(s, 1, n) = <<"P", "U", "N", "C", "T">>}

\* the longest such prefix
LongestCode(s) == SubSeq(s, 1, Max(CodePrefixes(s)))

\* the codes of the "/"-separated pieces of a tag-spec, joined by "/"
JoinedCodes(s) ==
    Join([k \in 1..Len(SplitOn(s, "/")) |-> LongestCode(SplitOn(s, "/")[k])], <<"/">>)

\* C13: for every accepted unit whose tag-spec is not a punctuation literal both
\* validators emit the codes of the "/"-separated tags of the tag-spec, joined
\* by "/" in their order, with every marker dropped.
C13_JoinedCodes ==
    pc = "done" =>
        /\ ret_en.ok =>
              \A k \in 1..Len(LineUnits) :
                  ~LiteralUnit(LineUnits[k])
                      => ret_en.usas_tags[k] = JoinedCodes(Payload(LineUnits[k]))
        /\ ret_fi.ok =>
              \A k \in 1..Len(LineUnits) :
                  Underscores(LineUnits[k]) >= 1
                      => ret_fi.semantic_tags[k] = JoinedCodes(SplitOn(LineUnits[k], "_")[2])

\* a unit with two tags and markers, accepted by both validators with the same
\* two codes and without the markers
C13_Witness ==
    /\ pc = "done" /\ ret_en.ok /\ ret_fi.ok
    /\ \E k \in 1..Len(LineUnits) :
          /\ Len(SplitOn(Payload(LineUnits[k]), "/")) = 2
          /\ Contains(Payload(LineUnits[k]), "+")
          /\ Contains(Payload(LineUnits[k]), "m")
          /\ ret_en.usas_tags[k] = ret_fi.semantic_tags[k]
          /\ Len(SplitOn(ret_en.usas_tags[k], "/")) = 2
          /\ Len(ret_en.usas_tags[k]) < Len(Payload(LineUnits[k]))

\* C19 (the claim as stated): every failure of the three line functions, and of
\* parse_usas_token_group, is the malformed-input error ValueError; no call
\* ends with another kind of error.
C19_SingleErrorKind ==
    pc = "done" =>
        /\ ret_en.ok \/ ret_en.error = ValueError
        /\ ret_mwe.ok \/ ret_mwe.error = ValueError
        /\ ret_fi.ok \/ ret_fi.error = ValueError
        /\ parse_usas_token_group(text).ok \/ parse_usas_token_group(text).error = ValueError

\* ------------------------------------------------------------------------
\* Properties of the tag grammar parser
\* ------------------------------------------------------------------------

\* the argument is one atom: not empty, without "/" and without whitespace
IsAtom ==
    /\ usas_tag_group_text # <<>>
    /\ \A p \in 1..Len(usas_tag_group_text) :
          usas_tag_group_text[p] \notin Whitespace \cup {"/"}

\* the tag parse_usas_tag returned for the atom
ParsedTag == ret_tg.value[1][1]

\* the atom after its longest code prefix
Remainder ==
    SubSeq(usas_tag_group_text, Len(LongestCode(usas_tag_group_text)) + 1,
           Len(usas_tag_group_text))

\* C14: parsing one atom succeeds if and only if the atom begins with a taxonomy
\* code or with PUNCT, and the code returned is the longest such prefix; any
\* other atom fails with the format error, which names the atom; no character
\* after a valid prefix makes the parse fail.
C14_CodePrefix ==
    (tg_pc = "done" /\ IsAtom) =>
        /\ ret_tg.ok <=> CodePrefixes(usas_tag_group_text) # {}
        /\ ret_tg.ok =>
              /\ Len(ret_tg.value) = 1 /\ Len(ret_tg.value[1]) = 1
              /\ ParsedTag.tag = LongestCode(usas_tag_group_text)
        /\ ~ret_tg.ok =>
              /\ ret_tg.error = ValueError
              /\ ret_tg.message = usas_tag_group_text

\* an accepted atom with more than one code prefix and a letter that is no marker
C14_Witness ==
    /\ tg_pc = "done" /\ IsAtom /\ ret_tg.ok
    /\ Cardinality(CodePrefixes(usas_tag_group_text)) > 1
    /\ Contains(usas_tag_group_text, "x")
    /\ Len(ParsedTag.tag) = Max(CodePrefixes(usas_tag_group_text))

\* the positions at which a run of the character c starts in s
RunsOf(s, c) == {p \in 1..Len(s) : s[p] = c /\ (p = 1 \/ s[p - 1] # c)}

\* the length of the first run of c in s, 0 when there is none
LengthOfFirstRun(s, c) ==
    IF RunsOf(s, c) = {} THEN 0
    ELSE Max({n \in 1..Len(s) : \A q \in Min(RunsOf(s, c))..(Min(RunsOf(s, c)) + n - 1) :
                                    q <= Len(s) /\ s[q] = c})

\* s without its first run of c
WithoutFirstRun(s, c) ==
    IF RunsOf(s, c) = {} THEN s
    ELSE SubSeq(s, 1, Min(RunsOf(s, c)) - 1)
            \o SubSeq(s, Min(RunsOf(s, c)) + LengthOfFirstRun(s, c), Len(s))

\* s without any c
WithoutEvery(s, c) == SelectSeq(s, LAMBDA x : x # c)

\* C15 (the claim as stated): positive_markers is the length of the first run of
\* "+" in the remainder and only that run is removed; negative_markers is the
\* length of the first run of "-" in what remains after removing that run.
C15_FirstRunRemoved ==
    (tg_pc = "done" /\ IsAtom /\ ret_tg.ok) =>
        /\ ParsedTag.number_positive_markers = LengthOfFirstRun(Remainder, "+")
        /\ ParsedTag.number_negative_markers
              = LengthOfFirstRun(WithoutFirstRun(Remainder, "+"), "-")

\* C15 (amended): positive_markers is the length of the first run of "+" in the
\* remainder after the code (0 if none) and every "+" of the remainder is
\* removed; negative_markers is the length of the first run of "-" in what
\* remains after removing every "+" (0 if none).
C15_EveryRunRemoved ==
    (tg_pc = "done" /\ IsAtom /\ ret_tg.ok) =>
        /\ ParsedTag.number_positive_markers = LengthOfFirstRun(Remainder, "+")
        /\ ParsedTag.number_negative_markers
              = LengthOfFirstRun(WithoutEvery(Remainder, "+"), "-")

\* an accepted atom with two runs of "+" whose removal joins two "-"
C15_Witness ==
    /\ tg_pc = "done" /\ IsAtom /\ ret_tg.ok
    /\ Cardinality(RunsOf(Remainder, "+")) = 2
    /\ ParsedTag.number_positive_markers = 1
    /\ ParsedTag.number_negative_markers = 2
    /\ LengthOfFirstRun(Remainder, "-") = 1

\* C16: each of male, female, rarity_1, rarity_2, antecedent and neuter is true
\* exactly when its character m, f, %, @, c, n occurs in the remainder after the
\* code, whatever the other characters and their order; idiom is always false.
C16_Flags ==
    (tg_pc = "done" /\ IsAtom /\ ret_tg.ok) =>
        /\ ParsedTag.male <=> \E p \in 1..Len(Remainder) : Remainder[p] = "m"
        /\ ParsedTag.female <=> \E p \in 1..Len(Remainder) : Remainder[p] = "f"
        /\ ParsedTag.rarity_marker_1 <=> \E p \in 1..Len(Remainder) : Remainder[p] = "%"
        /\ ParsedTag.rarity_marker_2 <=> \E p \in 1..Len(Remainder) : Remainder[p] = "@"
        /\ ParsedTag.antecedents <=> \E p \in 1..Len(Remainder) : Remainder[p] = "c"
        /\ ParsedTag.neuter <=> \E p \in 1..Len(Remainder) : Remainder[p] = "n"
        /\ ~ParsedTag.idiom

\* an accepted atom with female before male and a third flag, all three true
C16_Witness ==
    /\ tg_pc = "done" /\ IsAtom /\ ret_tg.ok
    /\ Len(Remainder) = 3
    /\ Remainder[1] = "f" /\ Remainder[2] = "m"
    /\ ParsedTag.female /\ ParsedTag.male /\ ParsedTag.rarity_marker_2
    /\ ~ParsedTag.neuter

\* n times the character c
Times(c, n) == [k \in 1..n |-> c]

\* the minimal form of a tag: code, then its "+", then its "-"
MinimalForm(t) ==
    t.tag \o Times("+", t.number_positive_markers) \o Times("-", t.number_negative_markers)

\* C17: for every accepted atom, parsing the minimal form of its result (code,
\* then p times "+", then n times "-") succeeds and gives the same code, the
\* same positive_markers and the same negative_markers.
C17_RoundTrip ==
    (tg_pc = "done" /\ IsAtom /\ ret_tg.ok) =>
        /\ parse_usas_tag(MinimalForm(ParsedTag)).ok
        /\ parse_usas_tag(MinimalForm(ParsedTag)).value.tag = ParsedTag.tag
        /\ parse_usas_tag(MinimalForm(ParsedTag)).value.number_positive_markers
              = ParsedTag.number_positive_markers
        /\ parse_usas_tag(MinimalForm(ParsedTag)).value.number_negative_markers
              = ParsedTag.number_negative_markers

\* an accepted atom that is not its own minimal form: "-" before "+" and a flag
C17_Witness ==
    /\ tg_pc = "done" /\ IsAtom /\ ret_tg.ok
    /\ ParsedTag.number_positive_markers > 0
    /\ ParsedTag.number_negative_markers > 0
    /\ ParsedTag.male
    /\ MinimalForm(ParsedTag) # usas_tag_group_text
    /\ Len(MinimalForm(ParsedTag)) < Len(usas_tag_group_text)

\* the positions at which a maximal run of non-whitespace characters starts
AtomStarts(s) ==
    {p \in 1..Len(s) : s[p] \notin Whitespace /\ (p = 1 \/ s[p - 1] \in Whitespace)}

\* the maximal run of non-whitespace characters that starts at p
AtomAt(s, p) ==
    SubSeq(s, p, Max({q \in p..Len(s) : \A r \in p..q : s[r] \notin Whitespace}))

\* the g-th maximal run of non-whitespace characters of s
NthAtom(s, g) ==
    AtomAt(s, CHOOSE p \in AtomStarts(s) : Cardinality({q \in AtomStarts(s) : q < p}) = g - 1)

\* the "/"-separated pieces of the g-th run
PiecesOf(s, g) == SplitOn(NthAtom(s, g), "/")

\* some piece of some run that starts with no code
SomePieceRefused(s) ==
    \E g \in 1..Cardinality(AtomStarts(s)) :
        \E k \in 1..Len(PiecesOf(s, g)) : CodePrefixes(PiecesOf(s, g)[k]) = {}

\* C18: parse_usas_token_group returns one group per maximal run of
\* non-whitespace characters, in order, each holding one tag per "/"-separated
\* piece of its run, in order, so no group is empty; an empty or
\* whitespace-only text gives the empty list without error; when a piece fails
\* to parse, the call fails and returns no group.
C18_GroupsAndPieces ==
    tg_pc = "done" =>
        /\ ret_tg.ok <=> ~SomePieceRefused(usas_tag_group_text)
        /\ ~ret_tg.ok => (ret_tg.error = ValueError /\ ret_tg.value = <<>>)
        /\ AtomStarts(usas_tag_group_text) = {} => (ret_tg.ok /\ ret_tg.value = <<>>)
        /\ ret_tg.ok =>
              /\ Len(ret_tg.value) = Cardinality(AtomStarts(usas_tag_group_text))
              /\ \A g \in 1..Len(ret_tg.value) :
                    /\ Len(ret_tg.value[g]) = Len(PiecesOf(usas_tag_group_text, g))
                    /\ Len(ret_tg.value[g]) >= 1
                    /\ \A k \in 1..Len(ret_tg.value[g]) :
                          ret_tg.value[g][k].tag
                              = LongestCode(PiecesOf(usas_tag_group_text, g)[k])

\* an accepted text of two runs between whitespace, the second with two pieces
C18_Witness ==
    /\ tg_pc = "done" /\ ret_tg.ok
    /\ Len(ret_tg.value) = 2
    /\ usas_tag_group_text[1] \in Whitespace
    /\ Len(ret_tg.value[1]) = 1
    /\ Len(ret_tg.value[2]) = 2
    /\ ret_tg.value[2][1].tag # ret_tg.value[2][2].tag

\* ------------------------------------------------------------------------
\* Properties of the two parse methods
\* ------------------------------------------------------------------------

\* parse has ended, by a return or by an exception
ParseEnded == parse_pc \in {"en_done", "fi_done"}

\* the lines of the file that are not blank, stripped, in file order
StrippedLines ==
    [j \in 1..Len(SelectSeq(dataset, LAMBDA l : Strip(l) # <<>>)) |->
        Strip(SelectSeq(dataset, LAMBDA l : Strip(l) # <<>>)[j])]

\* what the line validator of the variant that ran gives for a line: the tokens,
\* the tag strings and the MWE sets
ValidatorTokens(line) ==
    IF parse_pc = "en_done"
    THEN EnglishBenedict_validate_text_string_format(line).tokens
    ELSE FinnishBenedict_validate_text_string_format(line).tokens

ValidatorTags(line) ==
    IF parse_pc = "en_done"
    THEN EnglishBenedict_validate_text_string_format(line).usas_tags
    ELSE FinnishBenedict_validate_text_string_format(line).semantic_tags

ValidatorMwe(line) ==
    IF parse_pc = "en_done"
    THEN get_mwe_indexes(line).value
    ELSE FinnishBenedict_validate_text_string_format(line).mwe_indexes

\* the line passes the validator and the MWE reconstruction of the variant that
\* ran, and none of its token texts starts with a code
CleanLine(line) ==
    /\ IF parse_pc = "en_done"
       THEN EnglishBenedict_validate_text_string_format(line).ok /\ get_mwe_indexes(line).ok
       ELSE FinnishBenedict_validate_text_string_format(line).ok
    /\ \A k \in 1..Len(ValidatorTokens(line)) : CodePrefixes(ValidatorTokens(line)[k]) = {}

\* the tag string is a member of label_filter
InFilter(usas_tag) == label_filter # NoValue /\ usas_tag \in label_filter[1]

\* some code of the tag string is not a member of label_validation
HasUnknownCode(usas_tag) ==
    /\ label_validation # NoValue
    /\ \E k \in 1..Len(SplitOn(usas_tag, "/")) : SplitOn(usas_tag, "/")[k] \notin label_validation[1]

\* C20: in both parse methods a token's tag string is replaced by the empty
\* string exactly when the full "/"-joined tag string is a member of
\* label_filter; tokens and MWE sets are those of the line validator; and a
\* filtered tag is exempt from label validation: a corpus of clean lines is
\* refused only for a tag that is not filtered.
C20_LabelFilter ==
    ParseEnded =>
        /\ ret_parse.ok =>
              /\ Len(ret_parse.value[1].texts) = Len(StrippedLines)
              /\ \A j \in 1..Len(StrippedLines) :
                    /\ ret_parse.value[1].texts[j].tokens = ValidatorTokens(StrippedLines[j])
                    /\ ret_parse.value[1].texts[j].mwe_indexes = Some(ValidatorMwe(StrippedLines[j]))
                    /\ ret_parse.value[1].texts[j].semantic_tags =
                          Some([k \in 1..Len(ValidatorTags(StrippedLines[j])) |->
                                  IF InFilter(ValidatorTags(StrippedLines[j])[k])
                                  THEN <<>>
                                  ELSE ValidatorTags(StrippedLines[j])[k]])
        /\ (~ret_parse.ok /\ \A j \in 1..Len(StrippedLines) : CleanLine(StrippedLines[j])) =>
              \E j \in 1..Len(StrippedLines) :
                  \E k \in 1..Len(ValidatorTags(StrippedLines[j])) :
                      /\ ~InFilter(ValidatorTags(StrippedLines[j])[k])
                      /\ ValidatorTags(StrippedLines[j])[k] # PUNCT
                      /\ HasUnknownCode(ValidatorTags(StrippedLines[j])[k])

\* a dataset returned with label_validation given, in which a tag with a code
\* that label_validation lacks was blanked, and a multi-tag string with a code
\* that is a filter entry was kept
C20_Witness ==
    /\ ParseEnded /\ ret_parse.ok
    /\ label_validation # NoValue /\ label_filter # NoValue
    /\ \E j \in 1..Len(StrippedLines) :
          \E k1, k2 \in 1..Len(ValidatorTags(StrippedLines[j])) :
              /\ ret_parse.value[1].texts[j].semantic_tags[1][k1] = <<>>
              /\ HasUnknownCode(ValidatorTags(StrippedLines[j])[k1])
              /\ ret_parse.value[1].texts[j].semantic_tags[1][k2] # <<>>
              /\ Len(SplitOn(ValidatorTags(StrippedLines[j])[k2], "/")) = 2
              /\ SplitOn(ValidatorTags(StrippedLines[j])[k2], "/")[1] \in label_filter[1]

\* the tag string the parse method keeps for a token: empty when filtered
Kept(usas_tag) == IF InFilter(usas_tag) THEN <<>> ELSE usas_tag

\* the kept tag string is one label validation looks at, and it has a code
\* that label_validation lacks
FailsValidation(usas_tag) ==
    /\ Kept(usas_tag) # <<>>
    /\ Kept(usas_tag) # PUNCT
    /\ HasUnknownCode(Kept(usas_tag))

\* C21: in both parse methods, on a corpus whose lines are otherwise clean,
\* parse raises ValueError and returns no dataset exactly when label_validation
\* is given and some kept tag string that is neither PUNCT nor empty has a
\* "/"-separated code outside label_validation; PUNCT and empty tag strings are
\* never looked up, and with label_validation None the corpus is accepted.
C21_LabelValidation ==
    (ParseEnded /\ \A j \in 1..Len(StrippedLines) : CleanLine(StrippedLines[j])) =>
        /\ ~ret_parse.ok <=>
              \E j \in 1..Len(StrippedLines) :
                  \E k \in 1..Len(ValidatorTags(StrippedLines[j])) :
                      FailsValidation(ValidatorTags(StrippedLines[j])[k])
        /\ ~ret_parse.ok => ret_parse.error = ValueError /\ ret_parse.value = NoValue
        /\ label_validation = NoValue => ret_parse.ok

\* parse raised on a clean corpus for a two-code tag whose first code is in
\* label_validation and whose second is not, in a corpus that also holds a
\* PUNCT tag
C21_Witness ==
    /\ ParseEnded /\ ~ret_parse.ok
    /\ \A j \in 1..Len(StrippedLines) : CleanLine(StrippedLines[j])
    /\ \E j \in 1..Len(StrippedLines) :
          \E k \in 1..Len(ValidatorTags(StrippedLines[j])) :
              /\ FailsValidation(ValidatorTags(StrippedLines[j])[k])
              /\ Len(SplitOn(ValidatorTags(StrippedLines[j])[k], "/")) = 2
              /\ SplitOn(ValidatorTags(StrippedLines[j])[k], "/")[1] \in label_validation[1]
    /\ \E j \in 1..Len(StrippedLines) :
          \E k \in 1..Len(ValidatorTags(StrippedLines[j])) :
              ValidatorTags(StrippedLines[j])[k] = PUNCT

\* ------------------------------------------------------------------------
\* Properties of EvaluationTexts and of the datasets returned
\* ------------------------------------------------------------------------

\* the optional lists of a text
OptionalFields == {"lemmas", "pos_tags", "semantic_tags", "mwe_indexes"}

\* every optional list that is given is as long as tokens
LengthsMatch(t) == \A f \in OptionalFields : t[f] = NoValue \/ Len(t[f][1]) = Len(t.tokens)

\* a parse method of any of the four parsers has ended
AnyParseEnded == parse_pc \in {"en_done", "fi_done", "torch_done", "cc_done"}

\* C23: EvaluationTexts(...) gives the text exactly when every optional list
\* that is not None is as long as tokens, and raises ValueError otherwise; and
\* every text of a dataset returned by a parser has tokens, semantic_tags and
\* mwe_indexes of one length.
C23_LengthInvariant ==
    /\ texts_pc = "done" =>
          /\ ret_texts.ok <=> LengthsMatch(texts_args)
          /\ ret_texts.ok => ret_texts.evaluation_text = Some(texts_args)
          /\ ~ret_texts.ok => ret_texts.error = ValueError /\ ret_texts.evaluation_text = NoValue
    /\ (AnyParseEnded /\ ret_parse.ok) =>
          \A j \in 1..Len(ret_parse.value[1].texts) :
              /\ ret_parse.value[1].texts[j].semantic_tags # NoValue
              /\ ret_parse.value[1].texts[j].mwe_indexes # NoValue
              /\ Len(ret_parse.value[1].texts[j].semantic_tags[1])
                    = Len(ret_parse.value[1].texts[j].tokens)
              /\ Len(ret_parse.value[1].texts[j].mwe_indexes[1])
                    = Len(ret_parse.value[1].texts[j].tokens)

\* a construction refused for mwe_indexes alone: lemmas is None, pos_tags and
\* semantic_tags are as long as the two tokens, mwe_indexes is shorter
C23_Witness ==
    /\ texts_pc = "done" /\ ~ret_texts.ok
    /\ Len(texts_args.tokens) = 2
    /\ texts_args.lemmas = NoValue
    /\ texts_args.pos_tags # NoValue /\ Len(texts_args.pos_tags[1]) = 2
    /\ texts_args.semantic_tags # NoValue /\ Len(texts_args.semantic_tags[1]) = 2
    /\ texts_args.mwe_indexes # NoValue /\ Len(texts_args.mwe_indexes[1]) = 1

\* ------------------------------------------------------------------------
\* Properties of TorchParser.parse and CorcenccParser.parse
\* ------------------------------------------------------------------------

\* the sequences of a sequence, one after the other
RECURSIVE Flatten(_)
Flatten(seqs) == IF seqs = <<>> THEN <<>> ELSE Head(seqs) \o Flatten(Tail(seqs))

\* row k of the CSV file read with neither label validation nor label filter
UncheckedRow(k) == Torch_row(dataset[k], k + 1, csv_field_names[1], NoValue, NoValue)

\* line j of the CorCenCC file read with neither label validation nor label
\* filter
UncheckedLine(j) == CC_line(dataset[j], j - 1, NoValue, NoValue)

\* the lines of the CorCenCC file that are not blank
TextLines == {j \in 1..Len(dataset) : Strip(dataset[j]) # <<>>}

\* the labels of the file, in file order, as read with neither label validation
\* nor label filter
UncheckedLabels ==
    IF parse_pc = "torch_done"
    THEN [k \in 1..Len(dataset) |-> UncheckedRow(k).label]
    ELSE Flatten([j \in 1..Len(dataset) |->
                    IF j \in TextLines THEN UncheckedLine(j).evaluation_text[1].semantic_tags[1]
                    ELSE <<>>])

\* the file is read without error when neither label validation nor label
\* filter is used
ReadsUnchecked ==
    IF parse_pc = "torch_done"
    THEN /\ csv_field_names # NoValue
         /\ expected_field_names \subseteq csv_field_names[1]
         /\ \A k \in 1..Len(dataset) : UncheckedRow(k).ok
    ELSE \A j \in 1..Len(dataset) : UncheckedLine(j).ok

\* the semantic tags of the dataset returned, in file order
ReturnedLabels ==
    Flatten([j \in 1..Len(ret_parse.value[1].texts) |->
                ret_parse.value[1].texts[j].semantic_tags[1]])

\* C22: in TorchParser.parse and CorcenccParser.parse a label whose full
\* "/"-joined tag string is in label_filter is emitted as the empty string and
\* is not raised as a label-validation error: a file that reads without label
\* validation, and whose labels with a code outside label_validation are all in
\* label_filter, is parsed, and its filtered labels are empty strings.
C22_FilteredNotValidated ==
    (/\ parse_pc \in {"torch_done", "cc_done"}
     /\ ReadsUnchecked
     /\ \A k \in 1..Len(UncheckedLabels) :
           (UncheckedLabels[k] # PUNCT /\ HasUnknownCode(UncheckedLabels[k]))
               => InFilter(UncheckedLabels[k]))
        => /\ ret_parse.ok
           /\ ReturnedLabels = [k \in 1..Len(UncheckedLabels) |-> Kept(UncheckedLabels[k])]

\* ------------------------------------------------------------------------
\* More properties of the two Benedict parse methods
\* ------------------------------------------------------------------------

\* what the parse method that ran gives for one line taken alone
LineAlone(line) ==
    IF parse_pc = "en_done" THEN EN_parse_line(line, label_validation, label_filter)
    ELSE FI_parse_line(line, label_validation, label_filter)

\* the lines of the file that the parse method refuses when taken alone
RefusedAlone == {j \in 1..Len(dataset) : ~LineAlone(dataset[j]).ok}

\* the flagged units among the first k units that start a run of flagged units
RunStartsIn(us, k) == {p \in 1..k : Flagged(us[p]) /\ (p = 1 \/ ~Flagged(us[p - 1]))}

\* C24: lines are processed independently: the text produced for a line is the
\* one the line gives when taken alone, whatever lines precede it; equal lines
\* give equal texts; in variant B the runs of "_i" units of every line are
\* numbered from 1; and parse raises exactly when some line taken alone is
\* refused, with the error of the first such line.
C24_LinesIndependent ==
    ParseEnded =>
        /\ ret_parse.ok <=> RefusedAlone = {}
        /\ ~ret_parse.ok => ret_parse.error = LineAlone(dataset[Min(RefusedAlone)]).error
        /\ ret_parse.ok =>
              /\ Len(ret_parse.value[1].texts) = Len(StrippedLines)
              /\ \A j \in 1..Len(StrippedLines) :
                    Some(ret_parse.value[1].texts[j]) = LineAlone(StrippedLines[j]).evaluation_text
              /\ \A j1, j2 \in 1..Len(StrippedLines) :
                    StrippedLines[j1] = StrippedLines[j2] =>
                        ret_parse.value[1].texts[j1] = ret_parse.value[1].texts[j2]
              /\ parse_pc = "fi_done" =>
                    \A j \in 1..Len(StrippedLines) :
                        \A k \in 1..Len(Split(StrippedLines[j])) :
                            ret_parse.value[1].texts[j].mwe_indexes[1][k] =
                                IF Flagged(Split(StrippedLines[j])[k])
                                THEN {Cardinality(RunStartsIn(Split(StrippedLines[j]), k))}
                                ELSE {}

\* variant B parsed a file of two equal lines, each with a run of "_i" units:
\* both texts number the run 1
C24_Witness ==
    /\ parse_pc = "fi_done" /\ ret_parse.ok
    /\ Len(StrippedLines) = 2
    /\ StrippedLines[1] = StrippedLines[2]
    /\ Flagged(Split(StrippedLines[1])[1])
    /\ ret_parse.value[1].texts[1].mwe_indexes[1][1] = {1}
    /\ ret_parse.value[1].texts[2].mwe_indexes[1][1] = {1}

\* every "/"-separated piece of the token text starts with a taxonomy code or
\* PUNCT: the texts parse_usas_token_group accepts
IsTagText(token) ==
    \A k \in 1..Len(SplitOn(token, "/")) : CodePrefixes(SplitOn(token, "/")[k]) # {}

\* the line validator of the variant that ran accepts the line
ValidatorAccepts(line) ==
    IF parse_pc = "en_done" THEN EnglishBenedict_validate_text_string_format(line).ok
    ELSE FinnishBenedict_validate_text_string_format(line).ok

\* a validated line with a token text that is a tag
HasTagToken(line) ==
    /\ ValidatorAccepts(line)
    /\ \E k \in 1..Len(ValidatorTokens(line)) : IsTagText(ValidatorTokens(line)[k])

\* a validated line that nothing but the token check could refuse: its MWE
\* markers are consistent and its kept tags pass label validation
OnlyTokenCheckLeft(line) ==
    /\ ValidatorAccepts(line)
    /\ parse_pc = "en_done" => get_mwe_indexes(line).ok
    /\ \A k \in 1..Len(ValidatorTags(line)) : ~FailsValidation(ValidatorTags(line)[k])

\* C25: both parse methods refuse, and return no dataset for, every corpus with
\* a validated line one of whose token texts parse_usas_token_group accepts,
\* whatever label_filter and label_validation are, with ValueError when the
\* lines before it are accepted; and a corpus whose token texts are all
\* rejected by parse_usas_token_group, even when they start with a code, is not
\* refused by this check.
C25_TokenIsATag ==
    ParseEnded =>
        /\ \/ ~ret_parse.ok /\ ret_parse.value = NoValue
           \/ \A j \in 1..Len(StrippedLines) : ~HasTagToken(StrippedLines[j])
        /\ \/ ret_parse.error = ValueError
           \/ \A j \in 1..Len(StrippedLines) :
                 \/ \E i \in 1..(j - 1) : ~LineAlone(StrippedLines[i]).ok
                 \/ ~HasTagToken(StrippedLines[j])
        /\ \/ ret_parse.ok
           \/ \E j \in 1..Len(StrippedLines) :
                 \/ HasTagToken(StrippedLines[j])
                 \/ ~OnlyTokenCheckLeft(StrippedLines[j])

\* parse raised at the second line, whose token text is a tag, with
\* label_validation and label_filter both given
C25_Witness ==
    /\ ParseEnded /\ ~ret_parse.ok
    /\ label_validation # NoValue /\ label_filter # NoValue
    /\ Len(StrippedLines) = 2
    /\ LineAlone(StrippedLines[1]).ok
    /\ HasTagToken(StrippedLines[2])

\* the line the loop of the parse method is about to read
NextLine == dataset[line_index + 1]

\* the result of an accepted corpus: one text per non-blank line, in file
\* order, whose text is the stripped line; it is the result of the corpus
\* without its blank lines
C26_OnePerLine ==
    (ParseEnded /\ ret_parse.ok) =>
        /\ Len(ret_parse.value[1].texts) = Len(StrippedLines)
        /\ \A j \in 1..Len(StrippedLines) :
              /\ ret_parse.value[1].texts[j].text = StrippedLines[j]
              /\ Some(ret_parse.value[1].texts[j]) = LineAlone(StrippedLines[j]).evaluation_text

\* one line read by the loop: a blank line raises nothing and leaves the texts
\* as they are, any other accepted line adds one text, the stripped line
C26_LineStep ==
    (parse_pc \in {"en_lines", "fi_lines"} /\ line_index < Len(dataset)) =>
        IF Strip(NextLine) = <<>>
        THEN /\ evaluation_texts' = evaluation_texts
             /\ parse_pc' = parse_pc
             /\ ret_parse' = ret_parse
             /\ line_index' = line_index + 1
        ELSE \/ /\ parse_pc' \in {"en_done", "fi_done"}
                /\ ~ret_parse'.ok
                /\ evaluation_texts' = evaluation_texts
             \/ /\ parse_pc' = parse_pc
                /\ line_index' = line_index + 1
                /\ Len(evaluation_texts') = Len(evaluation_texts) + 1
                /\ SubSeq(evaluation_texts', 1, Len(evaluation_texts)) = evaluation_texts
                /\ evaluation_texts'[Len(evaluation_texts')].text = Strip(NextLine)

\* C26: both parse methods produce exactly one EvaluationTexts per non-blank
\* line of the corpus, in file order, with text equal to the stripped line;
\* empty or whitespace-only lines are skipped without error and leave the list
\* of texts unchanged, so the dataset is that of the corpus without them.
C26_BlankLinesSkipped == []C26_OnePerLine /\ [][C26_LineStep]_vars

\* a dataset of one text returned for a file of two lines, one of them blank
\* and the other with whitespace around it
C26_Witness ==
    /\ ParseEnded /\ ret_parse.ok
    /\ Len(dataset) = 2
    /\ \E j \in 1..2 : Strip(dataset[j]) = <<>>
    /\ Len(ret_parse.value[1].texts) = 1
    /\ \E j \in 1..2 : ret_parse.value[1].texts[1].text = Strip(dataset[j])
                          /\ Strip(dataset[j]) # dataset[j]

\* ------------------------------------------------------------------------
\* The error of the tag grammar parser
\* ------------------------------------------------------------------------

\* the pieces of the g-th run of non-whitespace characters that start with no
\* code
RefusedPieces(s, g) == {k \in 1..Len(PiecesOf(s, g)) : CodePrefixes(PiecesOf(s, g)[k]) = {}}

\* the first run of non-whitespace characters with such a piece
RefusedAtomIndex(s) ==
    Min({g \in 1..Cardinality(AtomStarts(s)) : RefusedPieces(s, g) # {}})

\* the atom the failure comes from, and the sub-atom that cannot be parsed
RefusedAtom(s) == NthAtom(s, RefusedAtomIndex(s))

RefusedPiece(s) == PiecesOf(s, RefusedAtomIndex(s))[Min(RefusedPieces(s, RefusedAtomIndex(s)))]

\* sub occurs in s
OccursIn(sub, s) == \E p \in 1..(Len(s) + 1) : OccursAt(s, sub, p)

\* parse_usas_token_group has raised
TagParseFailed == tg_pc = "done" /\ ~ret_tg.ok

\* C27 as stated: when a "/"-separated sub-atom cannot be parsed, the error of
\* parse_usas_token_group carries both the sub-atom and the atom it came from.
C27_ErrorNamesAtom ==
    TagParseFailed =>
        /\ OccursIn(RefusedPiece(usas_tag_group_text), ret_tg.message)
        /\ OccursIn(RefusedAtom(usas_tag_group_text), ret_tg.message)

\* C27: when a "/"-separated sub-atom cannot be parsed, parse_usas_token_group
\* raises ValueError, returns no group, and the text its error carries is the
\* first sub-atom that cannot be parsed of the first atom that has one, and
\* nothing else: an atom with other pieces is not in the error.
C27_ErrorNamesPiece ==
    TagParseFailed =>
        /\ ret_tg.error = ValueError
        /\ ret_tg.value = <<>>
        /\ ret_tg.message = RefusedPiece(usas_tag_group_text)
        /\ RefusedAtom(usas_tag_group_text) # RefusedPiece(usas_tag_group_text)
              => ~OccursIn(RefusedAtom(usas_tag_group_text), ret_tg.message)

\* the call has failed on the second piece of the second atom: the error
\* carries that piece, which is shorter than its atom
C27_Witness ==
    /\ TagParseFailed
    /\ RefusedAtomIndex(usas_tag_group_text) = 2
    /\ Min(RefusedPieces(usas_tag_group_text, 2)) = 2
    /\ ret_tg.message # <<>>
    /\ ret_tg.message # RefusedAtom(usas_tag_group_text)

\* ------------------------------------------------------------------------
\* More properties of the MWE reconstruction of variant A
\* ------------------------------------------------------------------------

\* s has "." at position q, followed by at least one digit
DotAndDigits(s, q) == q < Len(s) /\ s[q] = "." /\ s[q + 1] \in Digits

\* the position of the third number of the marker "[i" digits "." digits "."
\* digits that starts at position p of s, 0 when no marker starts there
ThirdAfterSecond(s, r) == IF DotAndDigits(s, r) THEN r + 1 ELSE 0

ThirdAfterFirst(s, q) ==
    IF DotAndDigits(s, q) THEN ThirdAfterSecond(s, q + 1 + DigitRun(s, q + 1)) ELSE 0

ThirdNumberAt(s, p) ==
    IF p + 2 <= Len(s) /\ s[p] = "[" /\ s[p + 1] = "i" /\ s[p + 2] \in Digits
    THEN ThirdAfterFirst(s, p + 2 + DigitRun(s, p + 2))
    ELSE 0

\* s from position p on, with the third number of its markers replaced: by d1
\* in the first, third, ... marker and by d2 in the others
RECURSIVE Repositioned(_, _, _, _)
RepositionedAt(s, p, d1, d2, third) ==
    IF third = 0
    THEN <<s[p]>> \o Repositioned(s, p + 1, d1, d2)
    ELSE SubSeq(s, p, third - 1) \o d1 \o Repositioned(s, third + DigitRun(s, third), d2, d1)

Repositioned(s, p, d1, d2) ==
    IF p > Len(s) THEN <<>> ELSE RepositionedAt(s, p, d1, d2, ThirdNumberAt(s, p))

\* digit runs put in the place of position indexes: zero and a value above
\* every declared total, 99 with an Arabic-Indic nine for its second digit
PositionRuns == {<<"0">>, <<"9", "U+0669">>}

\* C28: get_mwe_indexes ignores the position index of a marker beyond
\* requiring digits: with the position indexes of the line replaced by other
\* digit runs (equal ones, zero, values above the declared total, in any
\* order) the line is accepted or refused as before and the MWE sets are the
\* same.
C28_PositionIgnored ==
    (pc = "done" /\ Contains(text, "[")) =>
        \A d1, d2 \in PositionRuns :
            get_mwe_indexes(Repositioned(text, 1, d1, d2)) = ret_mwe

\* an accepted line with two units of one MWE whose position indexes are
\* replaced by 0 and by 99
C28_Witness ==
    /\ pc = "done" /\ ret_mwe.ok
    /\ \E k1, k2 \in 1..Len(ret_mwe.value) :
          k1 < k2 /\ ret_mwe.value[k1] # {} /\ ret_mwe.value[k1] = ret_mwe.value[k2]
    /\ Len(Repositioned(text, 1, <<"0">>, <<"9", "U+0669">>)) = Len(text) + 1
    /\ get_mwe_indexes(Repositioned(text, 1, <<"0">>, <<"9", "U+0669">>)).ok

\* ---------------------------------------------------------------------------
\* The declared total of an id whose units disagree
\* ---------------------------------------------------------------------------

\* the totals declared by the units that carry the raw id
TotalsOf(id) == {Declared(LineUnits[k]) : k \in UnitsOf(id)}

\* some raw id of the line has units that declare different totals
TotalsDiffer == \E id \in RawIds : Cardinality(TotalsOf(id)) > 1

\* C29: the total of a raw id is the one declared by its first unit in line
\* order and the totals of its later units are never compared with it: a
\* well-formed line in which the units of one id declare different totals is
\* accepted exactly when every id has as many units as its first unit declares.
C29_FirstTotalDecides ==
    (pc = "done" /\ WellFormedLine /\ TotalsDiffer) =>
        (ret_mwe.ok <=> CountsMatch)

\* an accepted line whose two units of one id declare the totals 2 and 1
C29_Witness ==
    /\ pc = "done" /\ WellFormedLine /\ ret_mwe.ok
    /\ \E id \in RawIds :
          /\ Cardinality(TotalsOf(id)) > 1
          /\ Cardinality(UnitsOf(id)) = DeclaredTotal(id)
          /\ \E k \in UnitsOf(id) : Declared(LineUnits[k]) # DeclaredTotal(id)

\* ---------------------------------------------------------------------------
\* The sentences of TorchParser.parse
\* ---------------------------------------------------------------------------

\* TorchParser.parse has accepted every row it has read
TorchAccepted ==
    \/ parse_pc = "torch_rows"
    \/ parse_pc = "torch_done" /\ ret_parse.ok

\* the token of row k of the file
RowToken(k) == Strip(dataset[k].Token)

\* row k of the file is a sentence break
BreakRow(k) == lower(Strip(dataset[k].sentence_break)) = <<"t", "r", "u", "e">>

\* the token lists of the texts emitted so far
TextTokens == [j \in 1..Len(evaluation_texts) |-> evaluation_texts[j].tokens]

\* the row with which text j ends
TextEnd(j) == Len(Flatten(SubSeq(TextTokens, 1, j)))

\* the rows of the sentence that is still open
OpenSentence == IF parse_pc = "torch_rows" THEN sentence_tokens ELSE <<>>

\* C30: after any sequence of accepted rows of TorchParser.parse no emitted
\* text has an empty token list; the token lists of the texts, followed by the
\* open sentence, are the row tokens in file order; every text is its tokens
\* joined by one space and has one empty MWE set per token; every text ends
\* with a sentence-break row and holds no other one, except that the rows left
\* after the last break are the final text of the dataset returned.
C30_SentenceAccumulation ==
    TorchAccepted =>
        /\ \A j \in 1..Len(evaluation_texts) :
              /\ evaluation_texts[j].tokens # <<>>
              /\ evaluation_texts[j].text = Join(evaluation_texts[j].tokens, <<" ">>)
              /\ evaluation_texts[j].mwe_indexes =
                    Some([k \in 1..Len(evaluation_texts[j].tokens) |-> {}])
              /\ \/ BreakRow(TextEnd(j))
                 \/ /\ parse_pc = "torch_done"
                    /\ j = Len(evaluation_texts)
                    /\ TextEnd(j) = Len(dataset)
              /\ \A k \in (TextEnd(j - 1) + 1)..(TextEnd(j) - 1) : ~BreakRow(k)
        /\ Flatten(TextTokens) \o OpenSentence = [k \in 1..line_index |-> RowToken(k)]
        /\ \A k \in (TextEnd(Len(evaluation_texts)) + 1)..line_index :
              parse_pc = "torch_rows" => ~BreakRow(k)
        /\ parse_pc = "torch_done" =>
              /\ line_index = Len(dataset)
              /\ ret_parse.value[1].texts = evaluation_texts

\* a dataset returned with a sentence of two rows closed by its break row and
\* a final sentence of one row that is not a break
C30_Witness ==
    /\ parse_pc = "torch_done" /\ ret_parse.ok
    /\ Len(dataset) = 3
    /\ ~BreakRow(1) /\ BreakRow(2) /\ ~BreakRow(3)
    /\ Len(ret_parse.value[1].texts) = 2
    /\ Len(ret_parse.value[1].texts[1].tokens) = 2
    /\ ret_parse.value[1].texts[2].tokens = <<RowToken(3)>>

====
